---- MODULE Spec2Model ----
(***************************************************************************)
(* Model of the mongox specification algebra (package spec): the filter    *)
(* constructors and their compilation to bson.M (spec.go, logical.go) and  *)
(* the update constructors, Combine and ToBsonUpdate (update.go).          *)
(***************************************************************************)
EXTENDS Integers, Sequences, FiniteSets, TLC

(***************************************************************************)
(* Bounds                                                                  *)
(***************************************************************************)
MaxArgs == 3      \* longest argument list given to a variadic constructor
MaxNodes == 4     \* largest filter tree (in nodes) the calling program builds
NumThreads == 2    \* goroutines compiling the shared graph
MaxCalls == 2     \* most method calls made on one pipeline builder
MaxLen == 4       \* longest stage list of the program that keeps the returned list
MaxUNodes == 5    \* largest update tree (in nodes) the calling program builds

Fields == {"a"}

(***************************************************************************)
(* bson values: every value carries its dynamic type, as a Go `any` does.  *)
(***************************************************************************)
BVal(n) == [t |-> "val", v |-> n]
BDoc(m) == [t |-> "doc", v |-> m]
BList(s) == [t |-> "list", v |-> s]
BStr(x) == [t |-> "str", v |-> x]

BBool(b) == [t |-> "bool", v |-> IF b THEN 1 ELSE 0]

BPanic == [t |-> "panic", v |-> 0]
EmptyMap == [k \in {} |-> 0]
One(k, v) == [x \in {k} |-> v]

Values == {BVal(1), BVal(2)}

(***************************************************************************)
(* Filter values.  Nil is the nil interface value.                         *)
(***************************************************************************)
Nil == [kind |-> "nil"]

Eq(field, value) == [kind |-> "eq", field |-> field, value |-> value]

OpFilter(field, op, value) == [kind |-> "op", field |-> field, op |-> op, value |-> value]

Gte(field, value) == OpFilter(field, "$gte", value)

Lte(field, value) == OpFilter(field, "$lte", value)

Ne(field, value) == OpFilter(field, "$ne", value)

Gt(field, value) == OpFilter(field, "$gt", value)

Lt(field, value) == OpFilter(field, "$lt", value)

In(field, values) == OpFilter(field, "$in", values)

NotIn(field, values) == OpFilter(field, "$nin", values)

Nin(field, values) == NotIn(field, values)

Exists(field, exists) == OpFilter(field, "$exists", BBool(exists))

All(field, values) == OpFilter(field, "$all", values)

Size(field, size) == OpFilter(field, "$size", BVal(size))

\* options is the variadic argument list; only its first element is kept
Regex(field, pattern, options) ==
  [kind |-> "regex", field |-> field, pattern |-> pattern,
   options |-> IF Len(options) > 0 THEN options[1] ELSE ""]

ElemMatch(field, filter) == [kind |-> "elemMatch", field |-> field, filter |-> filter]

RECURSIVE FlattenKindNoSplice(_, _)
\* FlattenKind without the splice of same-kind containers
FlattenKindNoSplice(kind, filters) ==
  IF filters = <<>> THEN <<>>
  ELSE LET f == Head(filters)
           rest == FlattenKindNoSplice(kind, Tail(filters))
       IN IF f = Nil THEN rest ELSE <<f>> \o rest

RECURSIVE FlattenKindKeepNil(_, _)
\* FlattenKind without the nil check
FlattenKindKeepNil(kind, filters) ==
  IF filters = <<>> THEN <<>>
  ELSE LET f == Head(filters)
           rest == FlattenKindKeepNil(kind, Tail(filters))
       IN IF f.kind = kind THEN f.filters \o rest ELSE <<f>> \o rest

RECURSIVE FlattenKind(_, _)
\* the loop of And / Or: drop nil, splice the children of a same-kind container
FlattenKind(kind, filters) ==
  IF filters = <<>> THEN <<>>
  ELSE LET f == Head(filters)
           rest == FlattenKind(kind, Tail(filters))
       IN IF f = Nil THEN rest
          ELSE IF f.kind = kind THEN f.filters \o rest
          ELSE <<f>> \o rest

\* And without the len(flat) == 1 return
AndNoCollapse(filters) ==
  LET flat == FlattenKind("and", filters)
  IN IF Len(flat) = 0 THEN Nil ELSE [kind |-> "and", filters |-> flat]

And(filters) ==
  LET flat == FlattenKind("and", filters)
  IN IF Len(flat) = 0 THEN Nil
     ELSE IF Len(flat) = 1 THEN flat[1]
     ELSE [kind |-> "and", filters |-> flat]

\* Or without the len(flat) == 1 return
OrNoCollapse(filters) ==
  LET flat == FlattenKind("or", filters)
  IN IF Len(flat) = 0 THEN Nil ELSE [kind |-> "or", filters |-> flat]

Or(filters) ==
  LET flat == FlattenKind("or", filters)
  IN IF Len(flat) = 0 THEN Nil
     ELSE IF Len(flat) = 1 THEN flat[1]
     ELSE [kind |-> "or", filters |-> flat]

\* Not with double negation removed instead of wrapped
NotElim(filter) ==
  IF filter = Nil THEN Nil
  ELSE IF filter.kind = "not" THEN filter.filter
  ELSE [kind |-> "not", filter |-> filter]

Not(filter) ==
  IF filter = Nil THEN Nil ELSE [kind |-> "not", filter |-> filter]

\* Between that puts the smaller bound first
BetweenOrdered(field, min, max) ==
  IF min.v > max.v THEN And(<<Gte(field, max), Lte(field, min)>>)
  ELSE And(<<Gte(field, min), Lte(field, max)>>)

Between(field, min, max) == And(<<Gte(field, min), Lte(field, max)>>)

\* regexFilter.ToMongo that always emits the $options key
RegexToMongoAlwaysOptions(f) ==
  BDoc(One(f.field, BDoc([k \in {"$regex", "$options"} |->
                            IF k = "$regex" THEN BStr(f.pattern) ELSE BStr(f.options)])))

RegexToMongo(f) ==
  IF f.options = ""
  THEN BDoc(One(f.field, BDoc(One("$regex", BStr(f.pattern)))))
  ELSE BDoc(One(f.field, BDoc([k \in {"$regex", "$options"} |->
                                 IF k = "$regex" THEN BStr(f.pattern) ELSE BStr(f.options)])))

RECURSIVE ToMongo(_)
RECURSIVE CompileParts(_)
\* the loop of andFilter.ToMongo / orFilter.ToMongo: nil children are skipped
CompileParts(filters) ==
  IF filters = <<>> THEN <<>>
  ELSE IF Head(filters) = Nil THEN CompileParts(Tail(filters))
  ELSE <<ToMongo(Head(filters))>> \o CompileParts(Tail(filters))

\* ToMongo of each filter type; a method call on the nil interface panics
ToMongo(f) ==
  CASE f.kind = "nil" -> BPanic
    [] f.kind = "eq" -> BDoc(One(f.field, f.value))
    [] f.kind = "op" -> BDoc(One(f.field, BDoc(One(f.op, f.value))))
    [] f.kind = "regex" -> RegexToMongo(f)
    [] f.kind = "elemMatch" ->
         IF f.filter = Nil
         THEN BDoc(One(f.field, BDoc(One("$elemMatch", BDoc(EmptyMap)))))
         ELSE BDoc(One(f.field, BDoc(One("$elemMatch", ToMongo(f.filter)))))
    [] f.kind = "and" ->
         LET parts == CompileParts(f.filters)
         IN IF Len(parts) = 1 THEN parts[1] ELSE BDoc(One("$and", BList(parts)))
    [] f.kind = "or" ->
         LET parts == CompileParts(f.filters)
         IN IF Len(parts) = 1 THEN parts[1] ELSE BDoc(One("$or", BList(parts)))
    [] f.kind = "not" -> BDoc(One("$nor", BList(<<ToMongo(f.filter)>>)))

(***************************************************************************)
(* Update values (update.go).  A bson.M variable of the calling program    *)
(* lives in the heap `maps` under a reference of MapRefs; it holds the nil *)
(* map or a map with entries.  A payload is the bson.M stored under an     *)
(* operator key: ref = 0 is a map allocated by the compile itself, with    *)
(* entries m; another ref is the caller's map of that reference.           *)
(***************************************************************************)
BNilMap == [t |-> "nilmap", v |-> 0]

MapRefs == {1}

NilMap == [nil |-> TRUE, m |-> EmptyMap]

Map(m) == [nil |-> FALSE, m |-> m]

Set(field, value) == [kind |-> "set", field |-> field, value |-> value]

Inc(field, value) == [kind |-> "inc", field |-> field, value |-> value]

Push(field, value) == [kind |-> "push", field |-> field, value |-> value]

Pull(field, value) == [kind |-> "pull", field |-> field, value |-> value]

Unset(field) == [kind |-> "unset", field |-> field]

AddToSet(field, value) == [kind |-> "addToSet", field |-> field, value |-> value]

PopFirst(field) == [kind |-> "pop", field |-> field, position |-> 0 - 1]

PopLast(field) == [kind |-> "pop", field |-> field, position |-> 1]

Mul(field, value) == [kind |-> "mul", field |-> field, value |-> value]

Min(field, value) == [kind |-> "min", field |-> field, value |-> value]

Max(field, value) == [kind |-> "max", field |-> field, value |-> value]

Rename(oldField, newField) == [kind |-> "rename", oldField |-> oldField, newField |-> newField]

SetFields(fields) == [kind |-> "setFields", fields |-> fields]

\* an Update implemented outside the package: its ToBsonUpdate returns doc
Custom(doc) == [kind |-> "custom", doc |-> doc]

\* Combine that wraps a single remaining child
CombineAlwaysWrap(updates) ==
  LET nonNil == SelectSeq(updates, LAMBDA u : u # Nil)
  IN IF Len(nonNil) = 0 THEN Nil ELSE [kind |-> "combined", updates |-> nonNil]

Combine(updates) ==
  LET nonNil == SelectSeq(updates, LAMBDA u : u # Nil)
  IN IF Len(nonNil) = 0 THEN Nil
     ELSE IF Len(nonNil) = 1 THEN nonNil[1]
     ELSE [kind |-> "combined", updates |-> nonNil]

Payload(ref, m) == [t |-> "map", ref |-> ref, m |-> m]

Fresh(m) == Payload(0, m)

\* the v.(bson.M) type assertion
IsMap(p) == p.t = "map"

\* the entries a `range` over the payload visits (none for the nil map)
Contents(p, heap) == IF p.ref = 0 THEN p.m ELSE heap[p.ref].m

IsNilMap(p, heap) == p.ref # 0 /\ heap[p.ref].nil

\* existingMap[field] = val for every entry of new
Overlay(new, old) ==
  [x \in DOMAIN new \cup DOMAIN old |-> IF x \in DOMAIN new THEN new[x] ELSE old[x]]

Put(out, k, v) == [x \in DOMAIN out \cup {k} |-> IF x = k THEN v ELSE out[x]]

\* MergeKey that keeps the existing payload when one side is not a bson.M
MergeKeyNoReplace(acc, k, v) ==
  IF acc.panic THEN acc
  ELSE IF k \in DOMAIN acc.out /\ IsMap(acc.out[k]) /\ IsMap(v)
  THEN LET existing == acc.out[k]
           new == Contents(v, acc.heap)
       IN IF new = EmptyMap THEN acc
          ELSE IF IsNilMap(existing, acc.heap) THEN [acc EXCEPT !.panic = TRUE]
          ELSE IF existing.ref # 0
          THEN [acc EXCEPT !.heap[existing.ref].m = Overlay(new, @)]
          ELSE [acc EXCEPT !.out[k].m = Overlay(new, @)]
  ELSE IF k \in DOMAIN acc.out THEN acc
  ELSE [acc EXCEPT !.out = Put(@, k, v)]

\* MergeKey without the merge of two bson.M payloads
MergeKeyReplace(acc, k, v) ==
  IF acc.panic THEN acc ELSE [acc EXCEPT !.out = Put(@, k, v)]

\* the body of the loop over the keys of one child's compiled document
MergeKey(acc, k, v) ==
  IF acc.panic THEN acc
  ELSE IF k \in DOMAIN acc.out /\ IsMap(acc.out[k]) /\ IsMap(v)
  THEN LET existing == acc.out[k]
           new == Contents(v, acc.heap)
       IN IF new = EmptyMap THEN acc
          ELSE IF IsNilMap(existing, acc.heap) THEN [acc EXCEPT !.panic = TRUE]
          ELSE IF existing.ref # 0
          THEN [acc EXCEPT !.heap[existing.ref].m = Overlay(new, @)]
          ELSE [acc EXCEPT !.out[k].m = Overlay(new, @)]
  ELSE [acc EXCEPT !.out = Put(@, k, v)]

RECURSIVE MergeKeys(_, _, _)
\* for k, v := range update.ToBsonUpdate(): the keys of one document are
\* distinct and their payloads are distinct maps, so the order of the range
\* does not change the outcome
MergeKeys(acc, doc, keys) ==
  IF keys = {} THEN acc
  ELSE LET k == CHOOSE x \in keys : TRUE
       IN MergeKeys(MergeKey(acc, k, doc[k]), doc, keys \ {k})

Leaf(op, field, value, heap) ==
  [out |-> One(op, Fresh(One(field, value))), heap |-> heap, panic |-> FALSE]

RECURSIVE ToBsonUpdate(_, _)
RECURSIVE CombinedFold(_, _)
\* the loop of combinedUpdate.ToBsonUpdate over u.updates
CombinedFold(updates, acc) ==
  IF updates = <<>> \/ acc.panic THEN acc
  ELSE LET c == ToBsonUpdate(Head(updates), acc.heap)
       IN IF c.panic THEN [acc EXCEPT !.panic = TRUE, !.heap = c.heap]
          ELSE CombinedFold(Tail(updates),
                            MergeKeys([acc EXCEPT !.heap = c.heap], c.out, DOMAIN c.out))

\* ToBsonUpdate of each update type, run on the heap of caller maps: the
\* compiled document, the heap it leaves, and whether the call panicked
ToBsonUpdate(u, heap) ==
  CASE u.kind = "nil" -> [out |-> EmptyMap, heap |-> heap, panic |-> TRUE]
    [] u.kind = "set" -> Leaf("$set", u.field, u.value, heap)
    [] u.kind = "inc" -> Leaf("$inc", u.field, u.value, heap)
    [] u.kind = "push" -> Leaf("$push", u.field, u.value, heap)
    [] u.kind = "pull" -> Leaf("$pull", u.field, u.value, heap)
    [] u.kind = "unset" -> Leaf("$unset", u.field, BStr(""), heap)
    [] u.kind = "addToSet" -> Leaf("$addToSet", u.field, u.value, heap)
    [] u.kind = "pop" -> Leaf("$pop", u.field, BVal(u.position), heap)
    [] u.kind = "mul" -> Leaf("$mul", u.field, u.value, heap)
    [] u.kind = "min" -> Leaf("$min", u.field, u.value, heap)
    [] u.kind = "max" -> Leaf("$max", u.field, u.value, heap)
    [] u.kind = "rename" -> Leaf("$rename", u.oldField, BStr(u.newField), heap)
    [] u.kind = "setFields" ->
         [out |-> One("$set", Payload(u.fields, EmptyMap)), heap |-> heap, panic |-> FALSE]
    [] u.kind = "custom" -> [out |-> u.doc, heap |-> heap, panic |-> FALSE]
    [] u.kind = "combined" ->
         CombinedFold(u.updates, [out |-> EmptyMap, heap |-> heap, panic |-> FALSE])

\* the document the caller sees in the returned bson.M
Resolve(out, heap) ==
  BDoc([k \in DOMAIN out |->
          IF ~IsMap(out[k]) THEN out[k]
          ELSE IF IsNilMap(out[k], heap) THEN BNilMap
          ELSE BDoc(Contents(out[k], heap))])

Observed(r) == IF r.panic THEN BPanic ELSE Resolve(r.out, r.heap)

(***************************************************************************)
(* Aggregation pipelines (pipeline.go).  A builder is the Pipeline object  *)
(* behind a *Pipeline: id stands for its address and stages for the slice *)
(* p.stages, a backing array and the length in use.                        *)
(* A nil bson.M argument is BNilMap, a nil `any` is BNull.                 *)
(***************************************************************************)
BNull == [t |-> "null", v |-> 0]

\* a slice: the backing array and the length in use
EmptySlice == [arr |-> <<>>, len |-> 0]

Elems(sl) == SubSeq(sl.arr, 1, sl.len)

\* the built-in append: the element is written into the backing array when
\* it has room; a full array is replaced by one of twice the capacity
AppendSlice(sl, x) ==
  IF sl.len < Len(sl.arr)
  THEN [arr |-> [sl.arr EXCEPT ![sl.len + 1] = x], len |-> sl.len + 1]
  ELSE LET newcap == IF Len(sl.arr) = 0 THEN 1 ELSE 2 * Len(sl.arr)
       IN [arr |-> [i \in 1..newcap |->
                      IF i <= sl.len THEN sl.arr[i]
                      ELSE IF i = sl.len + 1 THEN x ELSE BNilMap],
           len |-> sl.len + 1]

NewPipeline == [id |-> 1, stages |-> EmptySlice]

\* append that skips a stage equal to one already in the slice
AppendStageDedup(p, stage) ==
  IF \E i \in 1..p.stages.len : p.stages.arr[i] = stage THEN p
  ELSE [p EXCEPT !.stages = AppendSlice(@, stage)]

\* append that puts the new stage in front
AppendStageFront(p, stage) ==
  [p EXCEPT !.stages = [arr |-> <<stage>> \o Elems(@), len |-> @.len + 1]]

\* p.stages = append(p.stages, stage); return p
AppendStage(p, stage) == [p EXCEPT !.stages = AppendSlice(@, stage)]

\* the slice header ToPipeline returns: it shares the builder's backing array
ToPipeline(p) == [shared |-> TRUE, len |-> p.stages.len, elems |-> <<>>]

\* Match without the nil check: a nil filter gives an empty $match
MatchNoNilCheck(p, filter) ==
  AppendStage(p, BDoc(One("$match", IF filter = Nil THEN BDoc(EmptyMap) ELSE ToMongo(filter))))

Match(p, filter) ==
  IF filter # Nil THEN AppendStage(p, BDoc(One("$match", ToMongo(filter)))) ELSE p

MatchRaw(p, filter) ==
  IF filter # BNilMap THEN AppendStage(p, BDoc(One("$match", filter))) ELSE p

Project(p, projection) == AppendStage(p, BDoc(One("$project", projection)))

Group(p, groupSpec) == AppendStage(p, BDoc(One("$group", groupSpec)))

\* groupSpec starts as {_id: idExpr}; every accumulator is then written to it
GroupBy(p, idExpr, accumulators) ==
  AppendStage(p, BDoc(One("$group",
    BDoc(Overlay(IF accumulators = BNilMap THEN EmptyMap ELSE accumulators.v,
                 One("_id", idExpr))))))

Sort(p, sort) == AppendStage(p, BDoc(One("$sort", sort)))

SortBy(p, field, order) == AppendStage(p, BDoc(One("$sort", BDoc(One(field, BVal(order))))))

Limit(p, n) == AppendStage(p, BDoc(One("$limit", BVal(n))))

Skip(p, n) == AppendStage(p, BDoc(One("$skip", BVal(n))))

Unwind(p, path) == AppendStage(p, BDoc(One("$unwind", BStr(path))))

UnwindWithOptions(p, path, preserveNullAndEmpty, includeArrayIndex) ==
  LET keys == {"path"}
                \cup (IF preserveNullAndEmpty THEN {"preserveNullAndEmptyArrays"} ELSE {})
                \cup (IF includeArrayIndex # "" THEN {"includeArrayIndex"} ELSE {})
      unwindSpec == [k \in keys |->
                       CASE k = "path" -> BStr(path)
                         [] k = "preserveNullAndEmptyArrays" -> BBool(TRUE)
                         [] k = "includeArrayIndex" -> BStr(includeArrayIndex)]
  IN AppendStage(p, BDoc(One("$unwind", BDoc(unwindSpec))))

Lookup(p, from, localField, foreignField, as) ==
  AppendStage(p, BDoc(One("$lookup",
    BDoc([k \in {"from", "localField", "foreignField", "as"} |->
            CASE k = "from" -> BStr(from)
              [] k = "localField" -> BStr(localField)
              [] k = "foreignField" -> BStr(foreignField)
              [] k = "as" -> BStr(as)]))))

LookupWithPipeline(p, from, let, pipeline, as) ==
  LET keys == {"from", "pipeline", "as"} \cup (IF let # BNilMap THEN {"let"} ELSE {})
      lookupSpec == [k \in keys |->
                       CASE k = "from" -> BStr(from)
                         [] k = "pipeline" -> pipeline
                         [] k = "as" -> BStr(as)
                         [] k = "let" -> let]
  IN AppendStage(p, BDoc(One("$lookup", BDoc(lookupSpec))))

AddFields(p, fields) == AppendStage(p, BDoc(One("$addFields", fields)))

PipelineSet(p, fields) == AppendStage(p, BDoc(One("$set", fields)))

\* Pipeline.Unset that always stores the list of fields
PipelineUnsetAlwaysList(p, fields) ==
  AppendStage(p, BDoc(One("$unset", BList([i \in DOMAIN fields |-> BStr(fields[i])]))))

PipelineUnset(p, fields) ==
  IF Len(fields) = 1
  THEN AppendStage(p, BDoc(One("$unset", BStr(fields[1]))))
  ELSE AppendStage(p, BDoc(One("$unset", BList([i \in DOMAIN fields |-> BStr(fields[i])]))))

ReplaceRoot(p, newRoot) ==
  AppendStage(p, BDoc(One("$replaceRoot", BDoc(One("newRoot", newRoot)))))

Count(p, field) == AppendStage(p, BDoc(One("$count", BStr(field))))

Facet(p, facets) == AppendStage(p, BDoc(One("$facet", facets)))

Bucket(p, groupBy, boundaries, defaultBucket, output) ==
  LET keys == {"groupBy", "boundaries"}
                \cup (IF defaultBucket # BNull THEN {"default"} ELSE {})
                \cup (IF output # BNilMap THEN {"output"} ELSE {})
      bucketSpec == [k \in keys |->
                       CASE k = "groupBy" -> groupBy
                         [] k = "boundaries" -> boundaries
                         [] k = "default" -> defaultBucket
                         [] k = "output" -> output]
  IN AppendStage(p, BDoc(One("$bucket", BDoc(bucketSpec))))

Sample(p, size) == AppendStage(p, BDoc(One("$sample", BDoc(One("size", BVal(size))))))

Out(p, collection) == AppendStage(p, BDoc(One("$out", BStr(collection))))

Merge(p, into, on, whenMatched, whenNotMatched) ==
  LET keys == {"into"}
                \cup (IF Len(on) > 0 THEN {"on"} ELSE {})
                \cup (IF whenMatched # "" THEN {"whenMatched"} ELSE {})
                \cup (IF whenNotMatched # "" THEN {"whenNotMatched"} ELSE {})
      mergeSpec == [k \in keys |->
                      CASE k = "into" -> BStr(into)
                        [] k = "on" -> BList([i \in DOMAIN on |-> BStr(on[i])])
                        [] k = "whenMatched" -> BStr(whenMatched)
                        [] k = "whenNotMatched" -> BStr(whenNotMatched)]
  IN AppendStage(p, BDoc(One("$merge", BDoc(mergeSpec))))

Raw(p, stage) == AppendStage(p, stage)

Strs(l) == [i \in DOMAIN l |-> l[i].v]

\* the method op called on builder p with the arguments a
Invoke(p, op, a) ==
  CASE op = "Match" -> Match(p, a[1])
    [] op = "MatchRaw" -> MatchRaw(p, a[1])
    [] op = "Project" -> Project(p, a[1])
    [] op = "Group" -> Group(p, a[1])
    [] op = "GroupBy" -> GroupBy(p, a[1], a[2])
    [] op = "Sort" -> Sort(p, a[1])
    [] op = "SortBy" -> SortBy(p, a[1].v, a[2].v)
    [] op = "Limit" -> Limit(p, a[1].v)
    [] op = "Skip" -> Skip(p, a[1].v)
    [] op = "Unwind" -> Unwind(p, a[1].v)
    [] op = "UnwindWithOptions" -> UnwindWithOptions(p, a[1].v, a[2].v = 1, a[3].v)
    [] op = "Lookup" -> Lookup(p, a[1].v, a[2].v, a[3].v, a[4].v)
    [] op = "LookupWithPipeline" -> LookupWithPipeline(p, a[1].v, a[2], a[3], a[4].v)
    [] op = "AddFields" -> AddFields(p, a[1])
    [] op = "Set" -> PipelineSet(p, a[1])
    [] op = "Unset" -> PipelineUnset(p, Strs(a))
    [] op = "ReplaceRoot" -> ReplaceRoot(p, a[1])
    [] op = "Count" -> Count(p, a[1].v)
    [] op = "Facet" -> Facet(p, a[1])
    [] op = "Bucket" -> Bucket(p, a[1], a[2], a[3], a[4])
    [] op = "Sample" -> Sample(p, a[1].v)
    [] op = "Out" -> Out(p, a[1].v)
    [] op = "Merge" -> Merge(p, a[1].v, Strs(a[2].v), a[3].v, a[4].v)
    [] op = "Raw" -> Raw(p, a[1])

(***************************************************************************)
(* The calling program: it holds one filter variable and assigns to it the *)
(* result of a constructor call whose arguments are the variable itself,   *)
(* nil, or a leaf built in place.                                          *)
(***************************************************************************)
VARIABLES flt, call, upd, maps, ucall, th, race, heap0, pipe, got, log, pcall,
          txn, repo, sdel, base, pg, hook

vars == <<flt, call, upd, maps, ucall, th, race, heap0, pipe, got, log, pcall,
          txn, repo, sdel, base, pg, hook>>

\* the variables of the repository layer: transactions, soft delete, documents
xvars == <<txn, repo, sdel, base, pg, hook>>

\* no call of WithTransaction has been made
TxnStart == [pc |-> "idle", opts |-> <<>>, session |-> FALSE, attempt |-> 0,
             trace |-> <<>>, fnRes |-> "none", runs |-> 0, ends |-> <<>>,
             lastErr |-> "nil", ret |-> "none"]

\* a document.Base with the given fields and no call made on it yet
NewBase(id, createdAt) ==
  LET b == [ID |-> id, CreatedAt |-> createdAt, UpdatedAt |-> 0]
  IN [doc |-> b, first |-> <<>>, op |-> "none", now |-> 0, clock |-> 0, pre |-> b]

\* a *SoftDeletable: a nil pointer, or a pointer to the zero value
NewSoftDeletable(isNil) == [nil |-> isNil, DeletedAt |-> <<>>, last |-> "none"]

\* no repository call has been made
NoCall == [op |-> "none", impl |-> {}, vres |-> "nil", bres |-> "nil",
           calls |-> <<>>, ret |-> "none"]

\* the values Normalize falls back to
FallbackPerPage == 20

FallbackMaxPerPage == 100

DefaultPaginationOptions ==
  [Page |-> 1, PerPage |-> FallbackPerPage, MaxPerPage |-> FallbackMaxPerPage,
   DefaultPerPage |-> FallbackPerPage]

\* PaginationOptions on which Normalize has not been called
Given(opts) == [opts |-> opts, pre |-> opts, normalized |-> FALSE]

\* an empty collection on which no repository method has been called
EmptyCollection ==
  [docs |-> {}, last |-> [op |-> "none", query |-> BDoc(EmptyMap), result |-> {}]]

ExtIdle ==
  /\ txn = TxnStart
  /\ repo = EmptyCollection
  /\ sdel = NewSoftDeletable(FALSE)
  /\ base = NewBase(0, 0)
  /\ pg = Given(DefaultPaginationOptions)
  /\ hook = NoCall

pvars == <<pipe, got, log, pcall>>

NoList == [shared |-> FALSE, len |-> 0, elems |-> <<>>]

PipeIdle ==
  /\ pipe = NewPipeline
  /\ got = NoList
  /\ log = <<>>
  /\ pcall = [op |-> "none", args |-> <<>>, pre |-> NewPipeline, ret |-> 0,
              out |-> <<>>, had |-> <<>>]

fvars == <<flt, call>>

uvars == <<upd, maps, ucall>>

cvars == <<th, race, heap0>>

RECURSIVE NodeCount(_)
RECURSIVE NodeCountSeq(_)
NodeCountSeq(s) == IF s = <<>> THEN 0 ELSE NodeCount(Head(s)) + NodeCountSeq(Tail(s))

NodeCount(f) ==
  CASE f.kind = "nil" -> 0
    [] f.kind \in {"eq", "op", "regex"} -> 1
    [] f.kind \in {"elemMatch", "not"} -> 1 + NodeCount(f.filter)
    [] f.kind \in {"and", "or"} -> 1 + NodeCountSeq(f.filters)

Leaves == {Eq(field, value) : field \in Fields, value \in Values}

Pool == {flt, Nil} \cup Leaves

ArgLists == UNION {[1..n -> Pool] : n \in 0..MaxArgs}

Assign(op, args, res) ==
  /\ NodeCount(res) <= MaxNodes
  /\ flt' = res
  /\ call' = [op |-> op, args |-> args, res |-> res]
  /\ UNCHANGED <<xvars, pvars, uvars, cvars>>

CallEq == \E field \in Fields, value \in Values :
  Assign("Eq", <<BStr(field), value>>, Eq(field, value))

\* the conditions given to ElemMatch: none, a leaf, or a conjunction of leaves
Conds == {Nil} \cup Leaves \cup {And(<<x, y>>) : x, y \in Leaves}

CallElemMatch == \E field \in Fields, f \in Conds :
  Assign("ElemMatch", <<BStr(field), f>>, ElemMatch(field, f))

CallBetween == \E field \in Fields, min \in Values, max \in Values :
  Assign("Between", <<BStr(field), min, max>>, Between(field, min, max))

CallAnd == \E args \in ArgLists :
  Assign("And", args, And(args))

CallOr == \E args \in ArgLists :
  Assign("Or", args, Or(args))

CallNot == \E f \in Pool :
  Assign("Not", <<f>>, Not(f))

(***************************************************************************)
(* The calling program of the update constructors: it owns the maps of the *)
(* heap, holds one update variable, builds updates from it and compiles it.*)
(***************************************************************************)
IdleThread ==
  [pc |-> "idle", node |-> Nil, idx |-> 0, out |-> EmptyMap, rd |-> {}, wr |-> {},
   result |-> BPanic]

ConcIdle ==
  /\ th = [t \in {} |-> IdleThread]
  /\ race = FALSE
  /\ heap0 = <<>>

RECURSIVE UNodeCount(_)
RECURSIVE UNodeCountSeq(_)
UNodeCountSeq(s) == IF s = <<>> THEN 0 ELSE UNodeCount(Head(s)) + UNodeCountSeq(Tail(s))

UNodeCount(u) ==
  CASE u.kind = "nil" -> 0
    [] u.kind = "combined" -> 1 + UNodeCountSeq(u.updates)
    [] OTHER -> 1

UpdLeaves ==
  {Set("a", BVal(2)), Inc("b", BVal(1))} \cup {SetFields(ref) : ref \in MapRefs}

\* the arguments of a Combine call whose result is compiled
UPool == {upd} \cup UpdLeaves

UArgLists == UNION {[1..n -> UPool] : n \in 0..MaxArgs}

\* the arguments of a Combine call, absent ones included
UPoolNil == {upd, Nil} \cup UpdLeaves

UArgListsNil == UNION {[1..n -> UPoolNil] : n \in 0..MaxArgs}

MapContents == {NilMap, Map(EmptyMap), Map(One("a", BVal(1)))}

DoCombine(args) ==
  LET res == Combine(args)
  IN /\ UNodeCount(res) <= MaxUNodes
     /\ upd' = res
     /\ ucall' = [op |-> "Combine", args |-> args, res |-> res, pre |-> maps,
                  out |-> BPanic, panic |-> FALSE]
     /\ UNCHANGED <<xvars, pvars, maps, fvars, cvars>>

CallCombine == \E args \in UArgLists : DoCombine(args)

CallCombineNil == \E args \in UArgListsNil : DoCombine(args)

CallToBsonUpdate ==
  LET r == ToBsonUpdate(upd, maps)
  IN /\ upd # Nil
     /\ maps' = r.heap
     /\ ucall' = [op |-> "ToBsonUpdate", args |-> <<upd>>, res |-> upd, pre |-> maps,
                  out |-> Observed(r), panic |-> r.panic]
     /\ UNCHANGED <<xvars, pvars, upd, fvars, cvars>>

UpdateIdle ==
  /\ upd = Nil
  /\ maps = [i \in MapRefs |-> NilMap]
  /\ ucall = [op |-> "none", args |-> <<>>, res |-> Nil, pre |-> maps,
              out |-> BPanic, panic |-> FALSE]

UpdateInit ==
  /\ flt = Nil
  /\ call = [op |-> "none", args |-> <<>>, res |-> Nil]
  /\ ConcIdle
  /\ PipeIdle
  /\ ExtIdle
  /\ upd = Nil
  /\ maps \in [MapRefs -> MapContents]
  /\ ucall = [op |-> "none", args |-> <<>>, res |-> Nil, pre |-> maps,
              out |-> BPanic, panic |-> FALSE]

UpdateNext ==
  \/ CallCombine
  \/ CallToBsonUpdate

SpecUpdate == UpdateInit /\ [][UpdateNext]_vars

CombineInit ==
  /\ flt = Nil
  /\ call = [op |-> "none", args |-> <<>>, res |-> Nil]
  /\ ConcIdle
  /\ PipeIdle
  /\ ExtIdle
  /\ UpdateIdle

CombineNext == CallCombineNil

SpecCombine == CombineInit /\ [][CombineNext]_vars

\* the program that combines Rename and Pop leaves and compiles the result
RenameLeaves == {Rename("a", "x"), Rename("b", "y"), PopFirst("a"), PopLast("b")}

CallCombineRename ==
  \E args \in UNION {[1..n -> {upd} \cup RenameLeaves] : n \in 0..MaxArgs} : DoCombine(args)

RenameNext ==
  \/ CallCombineRename
  \/ CallToBsonUpdate

SpecRename == CombineInit /\ [][RenameNext]_vars

\* the program that combines package leaves with updates of its own types,
\* whose payloads are a string or a list
CustomLeaves ==
  {Set("a", BVal(2)), Custom(One("$set", BStr("s"))), Custom(One("$set", BList(<<BVal(1)>>)))}

CallCombineCustom ==
  \E args \in UNION {[1..n -> {upd} \cup CustomLeaves] : n \in 0..MaxArgs} : DoCombine(args)

CustomNext ==
  \/ CallCombineCustom
  \/ CallToBsonUpdate

SpecCustom == CombineInit /\ [][CustomNext]_vars

(***************************************************************************)
(* Concurrent compilation: the graph is built, then NumThreads goroutines  *)
(* each call ToMongo or ToBsonUpdate on a node of it.  A ToBsonUpdate call *)
(* on a combinedUpdate runs its loop one child at a time; the goroutines   *)
(* are not synchronised, so their steps interleave freely.  rd and wr are  *)
(* the caller maps a running call has read and written so far.             *)
(***************************************************************************)
Threads == 1..NumThreads

SharedFields == SetFields(1)

\* the nodes of the shared graph that the goroutines compile
SharedUpdates ==
  {SharedFields,
   Combine(<<SharedFields, Set("a", BVal(2))>>),
   Combine(<<SharedFields, Inc("b", BVal(1))>>),
   Combine(<<Set("a", BVal(2)), SharedFields>>),
   Combine(<<Set("a", BVal(2)), Inc("b", BVal(1))>>)}

SharedFilters == {And(<<Eq("a", BVal(1)), Not(Eq("a", BVal(2)))>>)}

IsUpdate(n) == n \in SharedUpdates

Crashed == \E t \in DOMAIN th : th[t].pc = "fatal"

\* an access of goroutine t that is not ordered with an access of another
\* running call to the same map, one of the two being a write
Conflict(t, R, W) ==
  \E o \in Threads \ {t} :
    /\ th[o].pc = "run"
    /\ \/ W \cap (th[o].rd \cup th[o].wr) # {}
       \/ R \cap th[o].wr # {}

Begin(t) == \E n \in SharedUpdates \cup SharedFilters :
  /\ ~Crashed
  /\ th[t].pc = "idle"
  /\ th' = [th EXCEPT ![t] = [IdleThread EXCEPT !.pc = "run", !.node = n, !.idx = 1]]
  /\ UNCHANGED <<xvars, pvars, maps, race, heap0, fvars, upd, ucall>>

\* the maps one pass of the loop body reads: the incoming payload is ranged
\* over when its key is already in the result
StepReads(acc, c) ==
  {a \in MapRefs : \E k \in DOMAIN c.out :
     k \in DOMAIN acc.out /\ c.out[k].ref = a}

\* the maps one pass of the loop body writes: the existing payload gets
\* every entry of the incoming one
StepWrites(acc, c) ==
  {a \in MapRefs : \E k \in DOMAIN c.out :
     /\ k \in DOMAIN acc.out
     /\ acc.out[k].ref = a
     /\ Contents(c.out[k], acc.heap) # EmptyMap
     /\ ~acc.heap[a].nil}

\* one pass of the loop of combinedUpdate.ToBsonUpdate
Step(t) ==
  LET me == th[t]
      acc == [out |-> me.out, heap |-> maps, panic |-> FALSE]
      c == ToBsonUpdate(me.node.updates[me.idx], maps)
      after == MergeKeys(acc, c.out, DOMAIN c.out)
      R == StepReads(acc, c)
      W == StepWrites(acc, c)
  IN /\ ~Crashed
     /\ me.pc = "run"
     /\ IsUpdate(me.node)
     /\ me.node.kind = "combined"
     /\ me.idx <= Len(me.node.updates)
     /\ race' = (race \/ Conflict(t, R, W))
     /\ \/ /\ maps' = after.heap
           /\ th' = [th EXCEPT ![t] =
                       [me EXCEPT !.idx = @ + 1, !.out = after.out,
                                  !.rd = @ \cup R, !.wr = @ \cup W,
                                  !.pc = IF after.panic THEN "panicked" ELSE "run"]]
        \/ \* the runtime detects the unsynchronised map access and aborts
           /\ Conflict(t, R, W)
           /\ maps' = maps
           /\ th' = [th EXCEPT ![t] = [me EXCEPT !.pc = "fatal"]]
     /\ UNCHANGED <<xvars, pvars, heap0, fvars, upd, ucall>>

\* the call returns its document to the caller
Finish(t) ==
  LET me == th[t]
  IN /\ ~Crashed
     /\ me.pc = "run"
     /\ IF IsUpdate(me.node)
        THEN IF me.node.kind = "combined"
             THEN /\ me.idx > Len(me.node.updates)
                  /\ th' = [th EXCEPT ![t] =
                              [me EXCEPT !.pc = "done", !.result = Resolve(me.out, maps)]]
             ELSE th' = [th EXCEPT ![t] =
                           [me EXCEPT !.pc = "done",
                                      !.result = Observed(ToBsonUpdate(me.node, maps))]]
        ELSE th' = [th EXCEPT ![t] = [me EXCEPT !.pc = "done", !.result = ToMongo(me.node)]]
     /\ UNCHANGED <<xvars, pvars, maps, race, heap0, fvars, upd, ucall>>

ConcInit ==
  /\ flt = Nil
  /\ call = [op |-> "none", args |-> <<>>, res |-> Nil]
  /\ upd = Nil
  /\ maps \in [MapRefs -> MapContents]
  /\ ucall = [op |-> "none", args |-> <<>>, res |-> Nil, pre |-> maps,
              out |-> BPanic, panic |-> FALSE]
  /\ th = [t \in Threads |-> IdleThread]
  /\ race = FALSE
  /\ heap0 = maps
  /\ PipeIdle
  /\ ExtIdle

ConcNext == \E t \in Threads :
  \/ Begin(t)
  \/ Step(t)
  \/ Finish(t)

SpecConc == ConcInit /\ [][ConcNext]_vars

FilterIdle ==
  /\ flt = Nil
  /\ call = [op |-> "none", args |-> <<>>, res |-> Nil]

FilterInit ==
  /\ FilterIdle
  /\ UpdateIdle
  /\ ConcIdle
  /\ PipeIdle
  /\ ExtIdle

FilterNext ==
  \/ CallEq
  \/ CallElemMatch
  \/ CallBetween
  \/ CallAnd
  \/ CallOr
  \/ CallNot

SpecFilter == FilterInit /\ [][FilterNext]_vars

(***************************************************************************)
(* The calling program of the leaf constructors: it builds one leaf filter *)
(* from a field, a value of the kind the operator takes, and for ElemMatch *)
(* an inner condition.                                                     *)
(***************************************************************************)
LeafFields == {"a", "b", ""}

ValueLists == {BList(<<>>), BList(<<BVal(1)>>), BList(<<BVal(1), BVal(2)>>)}

Patterns == {"^a", ""}

OptionLists == {<<>>, <<"">>, <<"i">>, <<"i", "m">>}

CallCompare == \E field \in LeafFields, value \in Values :
  \/ Assign("Ne", <<BStr(field), value>>, Ne(field, value))
  \/ Assign("Gt", <<BStr(field), value>>, Gt(field, value))
  \/ Assign("Gte", <<BStr(field), value>>, Gte(field, value))
  \/ Assign("Lt", <<BStr(field), value>>, Lt(field, value))
  \/ Assign("Lte", <<BStr(field), value>>, Lte(field, value))

CallArrayOp == \E field \in LeafFields, values \in ValueLists :
  \/ Assign("In", <<BStr(field), values>>, In(field, values))
  \/ Assign("NotIn", <<BStr(field), values>>, NotIn(field, values))
  \/ Assign("Nin", <<BStr(field), values>>, Nin(field, values))
  \/ Assign("All", <<BStr(field), values>>, All(field, values))

CallExists == \E field \in LeafFields, exists \in BOOLEAN :
  Assign("Exists", <<BStr(field), BBool(exists)>>, Exists(field, exists))

CallSize == \E field \in LeafFields, size \in 0..2 :
  Assign("Size", <<BStr(field), BVal(size)>>, Size(field, size))

CallRegex == \E field \in LeafFields, pattern \in Patterns, options \in OptionLists :
  Assign("Regex",
         <<BStr(field), BStr(pattern), BList([i \in DOMAIN options |-> BStr(options[i])])>>,
         Regex(field, pattern, options))

LeafNext ==
  \/ CallEq
  \/ CallCompare
  \/ CallArrayOp
  \/ CallExists
  \/ CallSize
  \/ CallRegex
  \/ CallElemMatch
  \/ CallBetween

SpecLeaf == FilterInit /\ [][LeafNext]_vars

(***************************************************************************)
(* The calling program of a pipeline builder: it calls the stage methods   *)
(* on one builder made by NewPipeline and reads the stages with ToPipeline.*)
(***************************************************************************)
\* the elements a list returned by ToPipeline shows, given the builder
View(g, p) == IF g.shared THEN SubSeq(p.stages.arr, 1, g.len) ELSE g.elems

\* a method call on the builder; a list returned earlier keeps the backing
\* array it was cut from when the append moves the builder to a new one
DoStage(op, args) ==
  LET q == Invoke(pipe, op, args)
  IN /\ pipe' = q
     /\ log' = Append(log, [op |-> op, args |-> args])
     /\ pcall' = [op |-> op, args |-> args, pre |-> pipe, ret |-> q.id,
                  out |-> <<>>, had |-> View(got, pipe)]
     /\ got' = IF got.shared /\ Len(q.stages.arr) # Len(pipe.stages.arr)
               THEN [shared |-> FALSE, len |-> got.len, elems |-> View(got, pipe)]
               ELSE got
     /\ UNCHANGED <<xvars, fvars, uvars, cvars>>

Do(op, args) == Len(log) < MaxCalls /\ DoStage(op, args)

ADoc == BDoc(One("a", BVal(1)))

\* got := p.ToPipeline(), the result read at once and not kept
CallToPipeline ==
  /\ pcall.op # "ToPipeline"
  /\ pcall' = [op |-> "ToPipeline", args |-> <<>>, pre |-> pipe, ret |-> 0,
               out |-> View(ToPipeline(pipe), pipe), had |-> View(got, pipe)]
  /\ UNCHANGED <<xvars, pipe, got, log, fvars, uvars, cvars>>

PipelineInit ==
  /\ FilterIdle
  /\ UpdateIdle
  /\ ConcIdle
  /\ PipeIdle
  /\ ExtIdle

\* one disjunct for each stage method, with the arguments the program gives it
PipelineNext ==
  \/ \E filter \in {Nil, Eq("a", BVal(1)), And(<<Eq("a", BVal(1)), Eq("a", BVal(2))>>)} :
       Do("Match", <<filter>>)
  \/ \E filter \in {BNilMap, BDoc(EmptyMap), ADoc} : Do("MatchRaw", <<filter>>)
  \/ \E projection \in {BNilMap, ADoc} : Do("Project", <<projection>>)
  \/ Do("Group", <<BDoc(One("_id", BStr("$a")))>>)
  \/ \E accumulators \in {BNilMap, BDoc(EmptyMap), ADoc, BDoc(One("_id", BStr("$b")))} :
       Do("GroupBy", <<BStr("$a"), accumulators>>)
  \/ Do("Sort", <<ADoc>>)
  \/ Do("SortBy", <<BStr("a"), BVal(0 - 1)>>)
  \/ Do("Limit", <<BVal(5)>>)
  \/ Do("Skip", <<BVal(10)>>)
  \/ Do("Unwind", <<BStr("$a")>>)
  \/ \E preserve \in BOOLEAN, index \in {"", "i"} :
       Do("UnwindWithOptions", <<BStr("$a"), BBool(preserve), BStr(index)>>)
  \/ Do("Lookup", <<BStr("c"), BStr("l"), BStr("f"), BStr("as")>>)
  \/ \E let \in {BNilMap, ADoc} :
       Do("LookupWithPipeline", <<BStr("c"), let, BList(<<>>), BStr("as")>>)
  \/ Do("AddFields", <<ADoc>>)
  \/ Do("Set", <<ADoc>>)
  \/ \E fields \in {<<>>, <<"a">>, <<"a", "b">>, <<"b", "a">>} :
       Do("Unset", [i \in DOMAIN fields |-> BStr(fields[i])])
  \/ Do("ReplaceRoot", <<BStr("$a")>>)
  \/ Do("Count", <<BStr("n")>>)
  \/ Do("Facet", <<ADoc>>)
  \/ \E defaultBucket \in {BNull, BStr("other")}, output \in {BNilMap, ADoc} :
       Do("Bucket", <<BStr("$a"), BList(<<BVal(0), BVal(1)>>), defaultBucket, output>>)
  \/ Do("Sample", <<BVal(3)>>)
  \/ Do("Out", <<BStr("c")>>)
  \/ \E on \in {<<>>, <<"a">>}, whenMatched \in {"", "merge"} :
       Do("Merge", <<BStr("c"), BList([i \in DOMAIN on |-> BStr(on[i])]), BStr(whenMatched), BStr("")>>)
  \/ \E stage \in {BNilMap, ADoc} : Do("Raw", <<stage>>)
  \/ CallToPipeline

SpecPipeline == PipelineInit /\ [][PipelineNext]_vars

(***************************************************************************)
(* The calling program that keeps the list ToPipeline returned: it goes on *)
(* appending stages to the builder, assigns to elements of the list and    *)
(* appends to the list.                                                    *)
(***************************************************************************)
CallerStage == BDoc(One("$limit", BVal(1)))

AppendMore ==
  /\ pipe.stages.len < MaxLen
  /\ \/ DoStage("Skip", <<BVal(10)>>)
     \/ DoStage("Limit", <<BVal(5)>>)

\* got = p.ToPipeline()
KeepToPipeline ==
  /\ got' = ToPipeline(pipe)
  /\ pcall' = [op |-> "ToPipeline", args |-> <<>>, pre |-> pipe, ret |-> 0,
               out |-> View(ToPipeline(pipe), pipe), had |-> View(got, pipe)]
  /\ UNCHANGED <<xvars, pipe, log, fvars, uvars, cvars>>

\* got[i-1] = CallerStage: a write to the backing array of the list
SetElement == \E i \in 1..got.len :
  /\ IF got.shared
     THEN pipe' = [pipe EXCEPT !.stages.arr[i] = CallerStage] /\ got' = got
     ELSE got' = [got EXCEPT !.elems[i] = CallerStage] /\ pipe' = pipe
  /\ pcall' = [op |-> "SetElement", args |-> <<BVal(i)>>, pre |-> pipe, ret |-> 0,
               out |-> <<>>, had |-> View(got, pipe)]
  /\ UNCHANGED <<xvars, log, fvars, uvars, cvars>>

\* got = append(got, CallerStage): written into the backing array of the
\* list when it has room, into a new array otherwise
AppendToList ==
  /\ got # NoList
  /\ got.len < MaxLen
  /\ IF got.shared /\ got.len < Len(pipe.stages.arr)
     THEN /\ got' = [got EXCEPT !.len = @ + 1]
          /\ pipe' = [pipe EXCEPT !.stages.arr[got.len + 1] = CallerStage]
     ELSE /\ got' = [shared |-> FALSE, len |-> got.len + 1,
                     elems |-> Append(View(got, pipe), CallerStage)]
          /\ pipe' = pipe
  /\ pcall' = [op |-> "AppendToList", args |-> <<>>, pre |-> pipe, ret |-> 0,
               out |-> <<>>, had |-> View(got, pipe)]
  /\ UNCHANGED <<xvars, log, fvars, uvars, cvars>>

AliasNext ==
  \/ AppendMore
  \/ KeepToPipeline
  \/ SetElement
  \/ AppendToList

SpecAlias == PipelineInit /\ [][AliasNext]_vars

(***************************************************************************)
(* Properties of the filter constructors                                   *)
(***************************************************************************)
RECURSIVE WellFormed(_)
WellFormed(f) ==
  CASE f.kind \in {"nil", "eq", "op"} -> TRUE
    [] f.kind \in {"elemMatch", "not"} -> WellFormed(f.filter)
    [] f.kind \in {"and", "or"} ->
         /\ Len(f.filters) >= 2
         /\ \A i \in 1..Len(f.filters) :
              /\ f.filters[i] # Nil
              /\ f.filters[i].kind # f.kind
              /\ WellFormed(f.filters[i])

\* C1: in every filter built by any sequence of constructor calls, every
\* And / Or container (at any depth) has at least two children, none of
\* them nil and none of them a container of the same kind.
C1_ContainersNormalised == WellFormed(flt)

C1_Witness ==
  /\ call.op = "And"
  /\ flt.kind = "and"
  /\ \E i \in 1..Len(call.args) : call.args[i].kind = "and"
  /\ \E i \in 1..Len(call.args) : call.args[i] = Nil

KindOf(op) == IF op = "And" THEN "and" ELSE "or"

Apply(op, args) == IF op = "And" THEN And(args) ELSE Or(args)

\* C2: And(n) and Or(n) of one non-nil filter n compile to the compiled
\* form of n, and return n itself when n is not a container of that kind.
C2_SingletonCollapse ==
  (call.op \in {"And", "Or"} /\ Len(call.args) = 1 /\ call.args[1] # Nil) =>
    LET n == call.args[1]
    IN /\ ToMongo(call.res) = ToMongo(n)
       /\ (n.kind # KindOf(call.op) => call.res = n)

C2_Witness ==
  /\ call.op = "Or"
  /\ Len(call.args) = 1
  /\ call.args[1].kind = "and"
  /\ call.res = call.args[1]

\* the children a filter contributes to a container of the given kind
ChildrenOf(kind, f) ==
  IF f = Nil THEN <<>> ELSE IF f.kind = kind THEN f.filters ELSE <<f>>

\* C3: And(And(a,b),c) and And(a,And(b,c)) compile as And(a,b,c) does, the
\* children being those of a, b and c in argument order; the same for Or.
C3_Flattening ==
  (call.op \in {"And", "Or"} /\ Len(call.args) = 3) =>
    LET a == call.args[1]
        b == call.args[2]
        c == call.args[3]
        k == KindOf(call.op)
    IN /\ ToMongo(Apply(call.op, <<Apply(call.op, <<a, b>>), c>>)) = ToMongo(call.res)
       /\ ToMongo(Apply(call.op, <<a, Apply(call.op, <<b, c>>)>>)) = ToMongo(call.res)
       /\ ChildrenOf(k, call.res) = ChildrenOf(k, a) \o ChildrenOf(k, b) \o ChildrenOf(k, c)

C3_Witness ==
  /\ call.op = "And"
  /\ Len(call.args) = 3
  /\ \A i \in 1..3 : call.args[i].kind = "eq"
  /\ call.args[1] # call.args[2]
  /\ And(<<call.args[1], call.args[2]>>).kind = "and"
  /\ call.res.kind = "and"
  /\ call.res.filters = call.args

StripNil(args) == SelectSeq(args, LAMBDA x : x # Nil)

\* C4: And / Or drop nil arguments: the result is that of the same call
\* without the nils, it is nil when no non-nil argument is given, and with
\* one non-nil argument a it compiles as a.
C4_NilAbsorption ==
  (call.op \in {"And", "Or"}) =>
    LET rest == StripNil(call.args)
    IN /\ call.res = Apply(call.op, rest)
       /\ (rest = <<>> => call.res = Nil)
       /\ (Len(rest) = 1 => ToMongo(call.res) = ToMongo(rest[1]))

C4_Witness ==
  /\ call.op = "And"
  /\ Len(call.args) = 3
  /\ call.args[1] = Nil
  /\ call.args[2] # Nil
  /\ call.args[3] = Nil
  /\ call.res = call.args[2]

\* C5: Not(f) of a non-nil filter f, leaf or composite, compiles to
\* {"$nor": [ToMongo(f)]}; Not(nil) is nil.
C5_UniversalNegation ==
  (call.op = "Not") =>
    LET f == call.args[1]
    IN IF f = Nil THEN call.res = Nil
       ELSE ToMongo(call.res) = BDoc(One("$nor", BList(<<ToMongo(f)>>)))

C5_Witness ==
  /\ call.op = "Not"
  /\ call.args[1].kind = "and"
  /\ call.res.kind = "not"

(***************************************************************************)
(* Properties of Combine and ToBsonUpdate                                  *)
(***************************************************************************)
OpKey(u) ==
  CASE u.kind \in {"set", "setFields"} -> "$set"
    [] u.kind = "inc" -> "$inc"
    [] u.kind = "push" -> "$push"
    [] u.kind = "pull" -> "$pull"
    [] u.kind = "unset" -> "$unset"
    [] u.kind = "addToSet" -> "$addToSet"
    [] u.kind = "pop" -> "$pop"
    [] u.kind = "mul" -> "$mul"
    [] u.kind = "min" -> "$min"
    [] u.kind = "max" -> "$max"
    [] u.kind = "rename" -> "$rename"

RECURSIVE KeysOf(_)
\* the operator keys an update uses
KeysOf(u) ==
  IF u.kind = "combined"
  THEN UNION {KeysOf(u.updates[i]) : i \in 1..Len(u.updates)}
  ELSE {OpKey(u)}

RECURSIVE FieldsOf(_, _, _)
\* the fields an update writes under operator key k, its maps as in heap
FieldsOf(u, k, heap) ==
  CASE u.kind = "combined" ->
         UNION {FieldsOf(u.updates[i], k, heap) : i \in 1..Len(u.updates)}
    [] u.kind = "setFields" ->
         IF k # "$set" THEN {} ELSE DOMAIN heap[u.fields].m
    [] u.kind = "rename" -> IF k = OpKey(u) THEN {u.oldField} ELSE {}
    [] OTHER -> IF k = OpKey(u) THEN {u.field} ELSE {}

RECURSIVE ValueOf(_, _, _, _)
RECURSIVE LastValue(_, _, _, _)
\* the value the last of the updates that write field f under k gives it
LastValue(updates, k, f, heap) ==
  LET n == Len(updates)
  IN IF f \in FieldsOf(updates[n], k, heap)
     THEN ValueOf(updates[n], k, f, heap)
     ELSE LastValue(SubSeq(updates, 1, n - 1), k, f, heap)

\* the value an update that writes field f under k gives it
ValueOf(u, k, f, heap) ==
  CASE u.kind = "combined" -> LastValue(u.updates, k, f, heap)
    [] u.kind = "setFields" -> heap[u.fields].m[f]
    [] u.kind = "unset" -> BStr("")
    [] u.kind = "pop" -> BVal(u.position)
    [] u.kind = "rename" -> BStr(u.newField)
    [] OTHER -> u.value

Writers(updates, k, f, heap) ==
  {i \in 1..Len(updates) : f \in FieldsOf(updates[i], k, heap)}

FieldMap(p) == IF p = BNilMap THEN EmptyMap ELSE p.v

Compiled == ucall.op = "ToBsonUpdate" /\ ucall.res.kind = "combined"

\* C6: the compiled form of a Combine of two or more children has exactly
\* the operator keys of the children and, under each key, one mapping with
\* every field a child writes under that key.
C6_CombineMerge ==
  Compiled =>
    /\ ~ucall.panic
    /\ ucall.out.t = "doc"
    /\ DOMAIN ucall.out.v = KeysOf(ucall.res)
    /\ \A k \in DOMAIN ucall.out.v :
         DOMAIN FieldMap(ucall.out.v[k]) = FieldsOf(ucall.res, k, ucall.pre)

\* C7: when two children of a Combine write the same field under the same
\* operator key, the compiled mapping holds the value of the later one.
C7_LaterChildWins ==
  Compiled =>
    \A k \in KeysOf(ucall.res) : \A f \in FieldsOf(ucall.res, k, ucall.pre) :
      (Cardinality(Writers(ucall.res.updates, k, f, ucall.pre)) >= 2) =>
        /\ ~ucall.panic
        /\ ucall.out.t = "doc"
        /\ k \in DOMAIN ucall.out.v
        /\ f \in DOMAIN FieldMap(ucall.out.v[k])
        /\ FieldMap(ucall.out.v[k])[f] = LastValue(ucall.res.updates, k, f, ucall.pre)

\* C8: Combine drops nil children, returns nil when no child remains and
\* returns the one remaining child itself, without a wrapper.
C8_CombineDropsNil ==
  (ucall.op = "Combine") =>
    LET rest == StripNil(ucall.args)
    IN /\ (Len(rest) = 0 => ucall.res = Nil)
       /\ (Len(rest) = 1 => ucall.res = rest[1])
       /\ (Len(rest) >= 2 => ucall.res.kind = "combined" /\ ucall.res.updates = rest)

C8_Witness ==
  /\ ucall.op = "Combine"
  /\ Len(ucall.args) = 3
  /\ ucall.args[1] = Nil
  /\ ucall.args[2].kind = "combined"
  /\ ucall.args[3] = Nil
  /\ ucall.res = ucall.args[2]

\* C9: compiling a Combine leaves every map given to SetFields with the
\* entries it had, and every child compiles on its own as it did before.
C9_CompileHasNoSideEffects ==
  Compiled =>
    /\ maps = ucall.pre
    /\ \A i \in 1..Len(ucall.res.updates) :
         Observed(ToBsonUpdate(ucall.res.updates[i], maps))
           = Observed(ToBsonUpdate(ucall.res.updates[i], ucall.pre))

(***************************************************************************)
(* Properties of concurrent compilation                                    *)
(***************************************************************************)
\* what goroutine t gets when the calls run one after the other, in either
\* order of t and another goroutine o
SeqResults(t) ==
  LET n == th[t].node
      alone == IF IsUpdate(n) THEN Observed(ToBsonUpdate(n, heap0)) ELSE ToMongo(n)
  IN {alone} \cup
     {Observed(ToBsonUpdate(n, ToBsonUpdate(th[o].node, heap0).heap)) :
        o \in {x \in Threads \ {t} : IsUpdate(n) /\ IsUpdate(th[x].node)}}

\* C10: concurrent ToMongo / ToBsonUpdate calls on a shared graph do not
\* write data another call reads or writes, and each caller gets the
\* result of a sequential compile.
C10_ConcurrentCompileSafe ==
  /\ ~race
  /\ ~Crashed
  /\ \A t \in DOMAIN th : th[t].pc = "done" => th[t].result \in SeqResults(t)

(***************************************************************************)
(* Properties of the merge step of Combine                                 *)
(***************************************************************************)
\* C11: every constructor and every compile operation is total: ToBsonUpdate
\* of an update built from the package constructors returns a value and
\* never panics, a nil mapping given to SetFields included.
C11_CompileIsTotal ==
  (ucall.op = "ToBsonUpdate") => ~ucall.panic /\ ucall.out.t = "doc"

\* the documents the children of the compiled Combine compile to
ChildDocs ==
  [i \in 1..Len(ucall.res.updates) |-> ToBsonUpdate(ucall.res.updates[i], ucall.pre).out]

KeyWriters(k) == {i \in DOMAIN ChildDocs : k \in DOMAIN ChildDocs[i]}

NonMapWriters(k) == {i \in KeyWriters(k) : ~IsMap(ChildDocs[i][k])}

LastOf(S) == CHOOSE i \in S : \A j \in S : j <= i

RECURSIVE OverlayFrom(_, _, _)
\* the mapping payloads of the children from i on under key k, merged in order
OverlayFrom(k, i, acc) ==
  IF i > Len(ChildDocs) THEN acc
  ELSE IF k \in DOMAIN ChildDocs[i]
  THEN OverlayFrom(k, i + 1, Overlay(Contents(ChildDocs[i][k], ucall.pre), acc))
  ELSE OverlayFrom(k, i + 1, acc)

\* C12: when a payload that is not a field mapping meets, or is met by,
\* another payload under the same operator key, the incoming payload replaces
\* the existing one wholesale: the compiled key holds the last such payload,
\* or the mapping payloads that came after it, and the compile does not panic.
C12_NonMapReplacesWholesale ==
  Compiled =>
    \A k \in UNION {DOMAIN ChildDocs[i] : i \in DOMAIN ChildDocs} :
      (NonMapWriters(k) # {}) =>
        LET j == LastOf(NonMapWriters(k))
        IN /\ ~ucall.panic
           /\ k \in DOMAIN ucall.out.v
           /\ ucall.out.v[k] =
                IF j = LastOf(KeyWriters(k)) THEN ChildDocs[j][k]
                ELSE BDoc(OverlayFrom(k, j + 1, EmptyMap))

C12_Witness ==
  /\ Compiled
  /\ Len(ucall.res.updates) = 3
  /\ ucall.res.updates[1] = Set("a", BVal(2))
  /\ ucall.res.updates[2] = Custom(One("$set", BStr("s")))
  /\ ucall.res.updates[3] = Custom(One("$set", BList(<<BVal(1)>>)))
  /\ ucall.out = BDoc(One("$set", BList(<<BVal(1)>>)))

RECURSIVE LeavesOf(_)
RECURSIVE LeavesOfSeq(_)
LeavesOfSeq(s) == IF s = <<>> THEN <<>> ELSE LeavesOf(Head(s)) \o LeavesOfSeq(Tail(s))

\* the leaves of an update in the order the fold visits them
LeavesOf(u) == IF u.kind = "combined" THEN LeavesOfSeq(u.updates) ELSE <<u>>

LeafField(u) == IF u.kind = "rename" THEN u.oldField ELSE u.field

\* C13 as stated: two Rename (or Pop) children under the same operator key
\* are not merged, the compiled entry holds only the field of the later one.
C13_RenameNotMerged ==
  Compiled =>
    \A k \in {"$rename", "$pop"} \cap KeysOf(ucall.res) :
      LET under == SelectSeq(LeavesOf(ucall.res), LAMBDA u : OpKey(u) = k)
      IN /\ ~ucall.panic
         /\ k \in DOMAIN ucall.out.v
         /\ DOMAIN FieldMap(ucall.out.v[k]) = {LeafField(under[Len(under)])}

\* C13 amended: the payloads of Rename and Pop are field mappings and are
\* merged like every other: the compiled $rename (or $pop) entry of a Combine
\* of Rename and Pop children holds every field a child names, each with the
\* value of the last child that names it.
C13_RenameMerged ==
  Compiled =>
    /\ ~ucall.panic
    /\ DOMAIN ucall.out.v = KeysOf(ucall.res)
    /\ \A k \in KeysOf(ucall.res) :
         /\ DOMAIN FieldMap(ucall.out.v[k]) = FieldsOf(ucall.res, k, ucall.pre)
         /\ \A f \in FieldsOf(ucall.res, k, ucall.pre) :
              FieldMap(ucall.out.v[k])[f] = LastValue(ucall.res.updates, k, f, ucall.pre)

C13_Witness ==
  /\ Compiled
  /\ ucall.res.updates = <<Rename("a", "x"), Rename("b", "y"), PopLast("b")>>
  /\ ucall.out = BDoc([k \in {"$rename", "$pop"} |->
                        IF k = "$pop" THEN BDoc(One("b", BVal(1)))
                        ELSE BDoc([f \in {"a", "b"} |->
                                     IF f = "a" THEN BStr("x") ELSE BStr("y")])])

(***************************************************************************)
(* Properties of the leaf filters                                          *)
(***************************************************************************)
Field1(field, payload) == BDoc(One(field, payload))

\* C18: Between(field, min, max) compiles as And(Gte(field, min),
\* Lte(field, max)), the lower bound first, whatever the order of the bounds.
C18_BetweenIsRangeSugar ==
  (call.op = "Between") =>
    LET field == call.args[1].v
        min == call.args[2]
        max == call.args[3]
    IN /\ ToMongo(call.res) = ToMongo(And(<<Gte(field, min), Lte(field, max)>>))
       /\ ToMongo(call.res) =
            BDoc(One("$and", BList(<<Field1(field, BDoc(One("$gte", min))),
                                     Field1(field, BDoc(One("$lte", max)))>>)))

C18_Witness ==
  /\ call.op = "Between"
  /\ call.args[2].v > call.args[3].v
  /\ call.res.kind = "and"

\* the operator key each comparison and array constructor stands for
OpOf(op) ==
  CASE op = "Ne" -> "$ne"
    [] op = "Gt" -> "$gt"
    [] op = "Gte" -> "$gte"
    [] op = "Lt" -> "$lt"
    [] op = "Lte" -> "$lte"
    [] op = "In" -> "$in"
    [] op \in {"NotIn", "Nin"} -> "$nin"
    [] op = "Exists" -> "$exists"
    [] op = "All" -> "$all"
    [] op = "Size" -> "$size"

\* C19: ToMongo of a leaf: Eq gives {field: value}; the comparison and array
\* leaves give {field: {$op: value}}; Regex gives {field: {$regex: pattern}}
\* with $options only for a non-empty first flag string; ElemMatch gives
\* {field: {$elemMatch: ToMongo(inner)}}, or {} for an absent inner filter.
C19_LeafToMongo ==
  LET field == call.args[1].v
      out == ToMongo(call.res)
  IN /\ (call.op = "Eq") => out = Field1(field, call.args[2])
     /\ (call.op \in {"Ne", "Gt", "Gte", "Lt", "Lte", "In", "NotIn", "Nin",
                      "Exists", "All", "Size"}) =>
          out = Field1(field, BDoc(One(OpOf(call.op), call.args[2])))
     /\ (call.op = "Regex") =>
          LET flags == call.args[3].v
          IN /\ out.v[field].v["$regex"] = call.args[2]
             /\ IF Len(flags) > 0 /\ flags[1].v # ""
                THEN /\ DOMAIN out.v[field].v = {"$regex", "$options"}
                     /\ out.v[field].v["$options"] = flags[1]
                ELSE DOMAIN out.v[field].v = {"$regex"}
     /\ (call.op = "ElemMatch") =>
          out = Field1(field, BDoc(One("$elemMatch",
                  IF call.args[2] = Nil THEN BDoc(EmptyMap) ELSE ToMongo(call.args[2]))))

C19_Witness ==
  /\ call.op = "Regex"
  /\ call.args[3] = BList(<<BStr("")>>)
  /\ ToMongo(call.res) = Field1("a", BDoc(One("$regex", BStr("^a"))))

(***************************************************************************)
(* Properties of the pipeline builder                                      *)
(***************************************************************************)
StageOps ==
  {"Match", "MatchRaw", "Project", "Group", "GroupBy", "Sort", "SortBy", "Limit", "Skip",
   "Unwind", "UnwindWithOptions", "Lookup", "LookupWithPipeline", "AddFields", "Set",
   "Unset", "ReplaceRoot", "Count", "Facet", "Bucket", "Sample", "Out", "Merge", "Raw"}

\* the stages one call appends to a builder that has none
StagesOfCall(c) == Elems(Invoke(NewPipeline, c.op, c.args).stages)

RECURSIVE StagesOfCalls(_)
StagesOfCalls(l) ==
  IF l = <<>> THEN <<>>
  ELSE StagesOfCalls(SubSeq(l, 1, Len(l) - 1)) \o StagesOfCall(l[Len(l)])

\* C14: ToPipeline returns the stages of the calls made on the builder, in
\* the order of the calls, equal stages included as often as appended.
C14_PipelineOrder ==
  (pcall.op = "ToPipeline") => pcall.out = StagesOfCalls(log)

C14_Witness ==
  /\ pcall.op = "ToPipeline"
  /\ Len(log) = 2
  /\ log[1].op = "Skip"
  /\ log[2].op = "Limit"
  /\ pcall.out = <<BDoc(One("$skip", BVal(10))), BDoc(One("$limit", BVal(5)))>>

NilArg(args) == \E i \in 1..Len(args) : args[i] \in {Nil, BNilMap, BNull}

\* C15: a stage method called with non-nil arguments returns the builder it
\* was called on, makes the stage list one longer and leaves the stages that
\* were there unchanged and in place.
C15_AppendKeepsBuilder ==
  (pcall.op \in StageOps /\ ~NilArg(pcall.args)) =>
    /\ pcall.ret = pcall.pre.id
    /\ pipe.id = pcall.pre.id
    /\ pipe.stages.len = pcall.pre.stages.len + 1
    /\ SubSeq(Elems(pipe.stages), 1, pcall.pre.stages.len) = Elems(pcall.pre.stages)

C15_Witness ==
  /\ pcall.op = "Limit"
  /\ Elems(pcall.pre.stages) = <<BDoc(One("$skip", BVal(10)))>>
  /\ Elems(pipe.stages) = <<BDoc(One("$skip", BVal(10))), BDoc(One("$limit", BVal(5)))>>

\* C16: Match(nil) and MatchRaw(nil) append nothing: the stage list is as
\* before and the builder itself is returned.
C16_MatchNilIsNoOp ==
  (pcall.op \in {"Match", "MatchRaw"} /\ pcall.args[1] \in {Nil, BNilMap}) =>
    /\ pipe = pcall.pre
    /\ pcall.ret = pcall.pre.id

C16_Witness ==
  /\ pcall.op = "Match"
  /\ pcall.args[1] = Nil
  /\ pcall.pre.stages.len = 1
  /\ pipe = pcall.pre

Shorter(a, b) == IF a < b THEN a ELSE b

\* C17: ToPipeline returns a fresh list: assigning to an element of the list
\* or appending to it leaves the builder's stages as they were, and appending
\* a stage to the builder leaves the elements of the list as they were.
C17_ToPipelineIsFresh ==
  /\ (pcall.op \in {"SetElement", "AppendToList"}) =>
       Elems(pipe.stages) = Elems(pcall.pre.stages)
  /\ (pcall.op \in StageOps) =>
       LET n == Shorter(got.len, pcall.pre.stages.len)
       IN SubSeq(View(got, pipe), 1, n) = SubSeq(pcall.had, 1, n)

\* C20: Pipeline.Unset with one field appends {$unset: field}, with two or
\* more fields {$unset: [fields in argument order]}.
C20_UnsetShape ==
  (pcall.op = "Unset" /\ Len(pcall.args) >= 1) =>
    /\ pipe.stages.len = pcall.pre.stages.len + 1
    /\ pipe.stages.arr[pipe.stages.len] =
         IF Len(pcall.args) = 1 THEN BDoc(One("$unset", pcall.args[1]))
         ELSE BDoc(One("$unset", BList(pcall.args)))

C20_Witness ==
  /\ pcall.op = "Unset"
  /\ pcall.args = <<BStr("a")>>
  /\ pcall.pre.stages.len = 1
  /\ Elems(pipe.stages)[2] = BDoc(One("$unset", BStr("a")))

\* C21: GroupBy(idExpr, accumulators) appends one $group stage whose mapping
\* holds every entry of accumulators and has idExpr under _id.
C21_GroupByStage ==
  (pcall.op = "GroupBy") =>
    LET idExpr == pcall.args[1]
        accumulators == IF pcall.args[2] = BNilMap THEN EmptyMap ELSE pcall.args[2].v
        stage == pipe.stages.arr[pipe.stages.len]
    IN /\ pipe.stages.len = pcall.pre.stages.len + 1
       /\ DOMAIN stage.v = {"$group"}
       /\ \A k \in DOMAIN accumulators :
            k \in DOMAIN stage.v["$group"].v /\ stage.v["$group"].v[k] = accumulators[k]
       /\ stage.v["$group"].v["_id"] = idExpr

(***************************************************************************)
(* Transactions: MongoTransactionManager.WithTransaction.  The session and *)
(* the driver are outside the repository: each of their calls either       *)
(* succeeds or fails with a plain or a transient transaction error, and so *)
(* does the function given by the caller.                                  *)
(***************************************************************************)
MaxRetry == 2

oldvars == <<fvars, uvars, cvars, pvars>>

OldIdle == FilterIdle /\ UpdateIdle /\ ConcIdle /\ PipeIdle

Errs == {"err", "transient"}

Outcomes == {"nil"} \cup Errs

\* TransactionOptions as the callers build them: <<>> is a nil pointer
OptionsGiven == {<<>>} \cup {<<n>> : n \in {-2, -1} \cup (0..MaxRetry)}

MaxRetriesOf(opts) == IF opts = <<>> THEN 0 ELSE opts[1]

isTransientTransactionError(err) == err = "transient"

Max2(a, b) == IF a >= b THEN a ELSE b

\* the end of one pass of the retry loop with the error of the attempt
EndAttemptRetryAll(t, err) ==
  LET u == [t EXCEPT !.lastErr = err, !.ends = Append(t.ends, err)]
  IN IF err = "nil" THEN [u EXCEPT !.pc = "done", !.ret = "nil"]
     ELSE [u EXCEPT !.pc = "loop", !.attempt = t.attempt + 1]

EndAttempt(t, err) ==
  LET u == [t EXCEPT !.lastErr = err, !.ends = Append(t.ends, err)]
  IN IF err = "nil" THEN [u EXCEPT !.pc = "done", !.ret = "nil"]
     ELSE IF ~isTransientTransactionError(err) THEN [u EXCEPT !.pc = "done", !.ret = err]
     ELSE [u EXCEPT !.pc = "loop", !.attempt = t.attempt + 1]

\* the rest of the session callback after fn returned err
AfterFnNoAbort(t, err) ==
  LET u == [t EXCEPT !.trace = Append(t.trace, "fn"), !.fnRes = err, !.runs = t.runs + 1]
  IN IF err # "nil" THEN EndAttempt(u, err)
     ELSE [u EXCEPT !.pc = "commit"]

AfterFn(t, err) ==
  LET u == [t EXCEPT !.trace = Append(t.trace, "fn"), !.fnRes = err, !.runs = t.runs + 1]
  IN IF err # "nil" THEN EndAttempt([u EXCEPT !.trace = Append(u.trace, "abort")], err)
     ELSE [u EXCEPT !.pc = "commit"]

\* a call of WithTransaction, up to the start of the session
CallWithTransaction == \E opts \in OptionsGiven, started \in BOOLEAN :
  /\ txn.pc \in {"idle", "done"}
  /\ txn' = IF started
            THEN [TxnStart EXCEPT !.pc = "loop", !.opts = opts, !.session = TRUE]
            ELSE [TxnStart EXCEPT !.pc = "done", !.opts = opts, !.ret = "err"]
  /\ UNCHANGED <<oldvars, repo, sdel, base, pg, hook>>

\* the loop test and, inside the loop, the start of the transaction
StartTransaction == \E err \in Outcomes :
  /\ txn.pc = "loop"
  /\ txn' = IF txn.attempt <= MaxRetriesOf(txn.opts)
            THEN IF err = "nil"
                 THEN [txn EXCEPT !.pc = "fn", !.trace = <<"start">>, !.fnRes = "none"]
                 ELSE EndAttempt([txn EXCEPT !.trace = <<>>, !.fnRes = "none"], err)
            ELSE [txn EXCEPT !.pc = "done", !.ret = txn.lastErr]
  /\ UNCHANGED <<oldvars, repo, sdel, base, pg, hook>>

RunFn == \E err \in Outcomes :
  /\ txn.pc = "fn"
  /\ txn' = AfterFn(txn, err)
  /\ UNCHANGED <<oldvars, repo, sdel, base, pg, hook>>

CommitTransaction == \E err \in Outcomes :
  /\ txn.pc = "commit"
  /\ txn' = EndAttempt([txn EXCEPT !.trace = Append(txn.trace, "commit")], err)
  /\ UNCHANGED <<oldvars, repo, sdel, base, pg, hook>>

TxnInit == OldIdle /\ ExtIdle

TxnNext ==
  \/ CallWithTransaction
  \/ StartTransaction
  \/ RunFn
  \/ CommitTransaction

SpecTxn == TxnInit /\ [][TxnNext]_vars

\* C22: in each attempt the steps are start, fn, then abort or commit: an
\* error of fn is followed by an abort and no commit, a nil result by a commit,
\* and fn runs only after the transaction of the attempt was started.
C22_AttemptOrder ==
  LET tr == txn.trace IN
  /\ Len(tr) <= 3
  /\ Len(tr) >= 1 => tr[1] = "start"
  /\ Len(tr) >= 2 => tr[2] = "fn"
  /\ Len(tr) = 3 => tr[3] \in {"abort", "commit"}
  /\ txn.fnRes \in Errs => tr = <<"start", "fn", "abort">>
  /\ txn.fnRes = "nil" =>
       IF txn.pc = "commit" THEN tr = <<"start", "fn">> ELSE tr = <<"start", "fn", "commit">>
  /\ txn.fnRes = "none" => Len(tr) <= 1
  /\ txn.pc = "fn" => tr = <<"start">>

C22_Witness ==
  /\ txn.attempt = 2
  /\ txn.trace = <<"start", "fn", "abort">>
  /\ txn.fnRes = "transient"

\* all attempts but the last one ended with a transient transaction error
RetriedOnlyTransient ==
  /\ \A i \in 1..(Len(txn.ends) - 1) : txn.ends[i] = "transient"
  /\ (txn.pc = "done" /\ txn.session /\ txn.ends # <<>> /\ txn.runs > 0) =>
       txn.ret = txn.ends[Len(txn.ends)]
  /\ txn.pc # "done" => \A i \in 1..Len(txn.ends) : txn.ends[i] = "transient"

\* C23: fn runs at most MaxRetries + 1 times, a new attempt follows only a
\* transient error, and with MaxRetries = 0 fn runs exactly once.
C23_RunsAtMostRetriesPlusOne ==
  /\ txn.runs <= MaxRetriesOf(txn.opts) + 1
  /\ RetriedOnlyTransient
  /\ (txn.pc = "done" /\ MaxRetriesOf(txn.opts) = 0) => txn.runs = 1

\* C23 amended: fn runs at most max(MaxRetries + 1, 0) times, a new attempt
\* follows only a transient error, and with MaxRetries = 0 fn runs at most
\* once, exactly once when the session and the transaction were started.
C23_RunsBounded ==
  /\ txn.runs <= Max2(MaxRetriesOf(txn.opts) + 1, 0)
  /\ Len(txn.ends) <= Max2(MaxRetriesOf(txn.opts) + 1, 0)
  /\ RetriedOnlyTransient
  /\ (txn.pc = "done" /\ MaxRetriesOf(txn.opts) = 0) =>
       txn.runs = (IF txn.session /\ txn.trace # <<>> THEN 1 ELSE 0)

C23_Witness ==
  /\ txn.pc = "done"
  /\ MaxRetriesOf(txn.opts) = 2
  /\ txn.runs = 3
  /\ txn.ends = <<"transient", "transient", "nil">>

\* C30: WithTransaction returns nil only if fn ran and the commit of that
\* attempt succeeded.
C30_NilMeansCommitted ==
  (txn.pc = "done" /\ txn.ret = "nil") =>
    /\ txn.runs >= 1
    /\ txn.trace = <<"start", "fn", "commit">>
    /\ txn.ends # <<>>
    /\ txn.ends[Len(txn.ends)] = "nil"

(***************************************************************************)
(* Documents: a document type that embeds document.Base and                *)
(* document.SoftDeletable and may implement Validatable and BeforeSave,    *)
(* saved through MongoRepository.InsertOne and ReplaceOne.  Times are      *)
(* numbers, 0 is the zero time; ObjectIDs are numbers, 0 is the zero id.   *)
(***************************************************************************)
MaxTime == 2

Times == 1..MaxTime

\* the ids primitive.NewObjectID can return, and an id set by the caller
NewObjectIDs == {2, 3}

IsZero(t) == t = 0

TouchForInsertOverwrite(b, now, clock, id) ==
  LET n == IF IsZero(now) THEN clock ELSE now
  IN [ID |-> id, CreatedAt |-> n, UpdatedAt |-> n]

TouchForInsert(b, now, clock, id) ==
  LET n == IF IsZero(now) THEN clock ELSE now
  IN [ID |-> IF IsZero(b.ID) THEN id ELSE b.ID,
      CreatedAt |-> IF IsZero(b.CreatedAt) THEN n ELSE b.CreatedAt,
      UpdatedAt |-> n]

TouchForUpdate(b, now, clock) ==
  LET n == IF IsZero(now) THEN clock ELSE now
  IN [b EXCEPT !.UpdatedAt = n]

IsDeleted(s) == ~s.nil /\ s.DeletedAt # <<>>

MarkDeletedSkipsZero(s, now, clock) ==
  IF s.nil \/ IsZero(now) THEN s
  ELSE [s EXCEPT !.DeletedAt = <<now>>]

MarkDeleted(s, now, clock) ==
  IF s.nil THEN s
  ELSE [s EXCEPT !.DeletedAt = <<IF IsZero(now) THEN clock ELSE now>>]

Restore(s) ==
  IF s.nil THEN s
  ELSE [s EXCEPT !.DeletedAt = <<>>]

\* the record of one Touch call on the Base
Touched(b, op, now, clock) ==
  [doc |-> b,
   first |-> IF op = "TouchForInsert" /\ base.first = <<>> THEN <<b>> ELSE base.first,
   op |-> op, now |-> now, clock |-> clock, pre |-> base.doc]

CallTouchForInsert == \E now \in {0} \cup Times, clock \in Times, id \in NewObjectIDs :
  /\ base' = Touched(TouchForInsert(base.doc, now, clock, id), "TouchForInsert", now, clock)
  /\ UNCHANGED <<oldvars, txn, repo, sdel, pg, hook>>

CallTouchForUpdate == \E now \in {0} \cup Times, clock \in Times :
  /\ base' = Touched(TouchForUpdate(base.doc, now, clock), "TouchForUpdate", now, clock)
  /\ UNCHANGED <<oldvars, txn, repo, sdel, pg, hook>>

CallMarkDeleted == \E now \in {0} \cup Times, clock \in Times :
  /\ sdel' = [MarkDeleted(sdel, now, clock) EXCEPT !.last = "MarkDeleted"]
  /\ UNCHANGED <<oldvars, txn, repo, base, pg, hook>>

CallRestore ==
  /\ sdel' = [Restore(sdel) EXCEPT !.last = "Restore"]
  /\ UNCHANGED <<oldvars, txn, repo, base, pg, hook>>

Interfaces == {"Validatable", "BeforeSave"}

\* the hooks InsertOne and ReplaceOne run on a document that implements impl,
\* whose Validate returns vres and whose BeforeSave returns bres
SaveHooksIgnoreValidate(impl, vres, bres) ==
  LET v == IF "Validatable" \in impl THEN <<"Validate">> ELSE <<>>
  IN IF "BeforeSave" \in impl
     THEN [calls |-> v \o <<"BeforeSave">>, err |-> bres]
     ELSE [calls |-> v, err |-> "nil"]

SaveHooks(impl, vres, bres) ==
  LET v == IF "Validatable" \in impl THEN <<"Validate">> ELSE <<>>
  IN IF "Validatable" \in impl /\ vres # "nil" THEN [calls |-> v, err |-> vres]
     ELSE IF "BeforeSave" \in impl
     THEN [calls |-> v \o <<"BeforeSave">>, err |-> bres]
     ELSE [calls |-> v, err |-> "nil"]

\* the end of InsertOne and ReplaceOne: the write and the value returned
Save(op, h, wres) ==
  IF h.err # "nil"
  THEN [calls |-> h.calls, ret |-> h.err]
  ELSE [calls |-> Append(h.calls, "write"),
        ret |-> IF op = "InsertOne" /\ wres = "duplicate" THEN "ErrDuplicateKey" ELSE wres]

\* the record of one call: the document's hooks and their results, the calls
\* made on the document and the store, and the value returned
Called(op, impl, vres, bres, r) ==
  [op |-> op, impl |-> impl, vres |-> vres, bres |-> bres, calls |-> r.calls, ret |-> r.ret]

NilDocument == [calls |-> <<>>, ret |-> "ErrNilDocument"]

\* the results a hook can return: nil when the document does not implement it
Results(impl, i, err) == IF i \in impl THEN {"nil", err} ELSE {"nil"}

InsertOne == \E docNil \in BOOLEAN, impl \in SUBSET Interfaces,
                wres \in {"nil", "duplicate", "failed"},
                clock \in Times, id \in NewObjectIDs :
  \E vres \in Results(impl, "Validatable", "invalid"),
     bres \in Results(impl, "BeforeSave", "rejected") :
  IF docNil
  THEN /\ hook' = Called("InsertOne", {}, "nil", "nil", NilDocument)
       /\ UNCHANGED <<oldvars, txn, repo, sdel, pg, base>>
  ELSE /\ base' = Touched(TouchForInsert(base.doc, clock, clock, id), "TouchForInsert", clock, clock)
       /\ hook' = Called("InsertOne", impl, vres, bres,
                       Save("InsertOne", SaveHooks(impl, vres, bres), wres))
       /\ UNCHANGED <<oldvars, txn, repo, sdel, pg>>

ReplaceOne == \E docNil \in BOOLEAN, impl \in SUBSET Interfaces,
                 wres \in {"nil", "failed"}, clock \in Times :
  \E vres \in Results(impl, "Validatable", "invalid"),
     bres \in Results(impl, "BeforeSave", "rejected") :
  IF docNil
  THEN /\ hook' = Called("ReplaceOne", {}, "nil", "nil", NilDocument)
       /\ UNCHANGED <<oldvars, txn, repo, sdel, pg, base>>
  ELSE /\ base' = Touched(TouchForUpdate(base.doc, clock, clock), "TouchForUpdate", clock, clock)
       /\ hook' = Called("ReplaceOne", impl, vres, bres,
                       Save("ReplaceOne", SaveHooks(impl, vres, bres), wres))
       /\ UNCHANGED <<oldvars, txn, repo, sdel, pg>>

DocInit ==
  /\ OldIdle
  /\ txn = TxnStart
  /\ repo = EmptyCollection
  /\ pg = Given(DefaultPaginationOptions)
  /\ hook = NoCall
  /\ sdel \in {NewSoftDeletable(isNil) : isNil \in BOOLEAN}
  /\ base \in {NewBase(id, createdAt) : id \in {0, 1}, createdAt \in {0} \cup Times}

DocNext ==
  \/ CallTouchForInsert
  \/ CallTouchForUpdate
  \/ CallMarkDeleted
  \/ CallRestore

SpecDoc == DocInit /\ [][DocNext]_vars

\* the documents are saved through the repository only
SaveInit ==
  /\ OldIdle
  /\ ExtIdle

SaveNext ==
  \/ InsertOne
  \/ ReplaceOne

SpecSave == SaveInit /\ [][SaveNext]_vars

\* C25: on a non-nil SoftDeletable IsDeleted is true exactly when the last call
\* was MarkDeleted; on a nil receiver the calls change nothing and IsDeleted
\* is false.
C25_IsDeletedFollowsLastCall ==
  /\ ~sdel.nil => (IsDeleted(sdel) <=> sdel.last = "MarkDeleted")
  /\ sdel.nil => (~IsDeleted(sdel) /\ sdel.DeletedAt = <<>>)

C25_Witness ==
  /\ ~sdel.nil
  /\ sdel.last = "MarkDeleted"
  /\ sdel.DeletedAt = <<2>>
  /\ IsDeleted(sdel)

\* ID and CreatedAt are those left by the first TouchForInsert, values set
\* before it are kept, and TouchForUpdate changes neither
KeepsIdentity ==
  /\ base.first # <<>> =>
       /\ base.doc.ID = base.first[1].ID
       /\ base.doc.CreatedAt = base.first[1].CreatedAt
       /\ ~IsZero(base.doc.ID) /\ ~IsZero(base.doc.CreatedAt)
  /\ base.op # "none" =>
       /\ ~IsZero(base.pre.ID) => base.doc.ID = base.pre.ID
       /\ ~IsZero(base.pre.CreatedAt) => base.doc.CreatedAt = base.pre.CreatedAt
  /\ base.op = "TouchForUpdate" =>
       /\ base.doc.ID = base.pre.ID
       /\ base.doc.CreatedAt = base.pre.CreatedAt

\* C26: ID and CreatedAt keep the values of the first TouchForInsert and
\* UpdatedAt is the time given to the most recent call.
C26_UpdatedAtIsGivenTime ==
  /\ KeepsIdentity
  /\ base.op # "none" => base.doc.UpdatedAt = base.now

\* C26 amended: as C26, but UpdatedAt is the time given to the most recent
\* call only when that time is not the zero time, and the reading of the clock
\* at that call when it is.
C26_UpdatedAtIsGivenOrClock ==
  /\ KeepsIdentity
  /\ base.op # "none" =>
       base.doc.UpdatedAt = (IF IsZero(base.now) THEN base.clock ELSE base.now)

C26_Witness ==
  /\ base.first # <<>>
  /\ base.op = "TouchForInsert"
  /\ base.pre.CreatedAt = 1
  /\ base.doc.CreatedAt = 1
  /\ base.doc.UpdatedAt = 2
  /\ base.now = 0

\* the position of a call in the calls of the last InsertOne or ReplaceOne
Position(c) ==
  IF \E i \in DOMAIN hook.calls : hook.calls[i] = c
  THEN CHOOSE i \in DOMAIN hook.calls : hook.calls[i] = c
  ELSE 0

\* C28: InsertOne and ReplaceOne run Validate and then BeforeSave, each when
\* implemented, before any write; an error of either is returned, nothing is
\* written, and after an error of Validate BeforeSave is not called.
C28_HooksBeforeWrite ==
  /\ Position("write") > 0 =>
       /\ "Validatable" \in hook.impl => Position("Validate") \in 1..(Position("write") - 1)
       /\ "BeforeSave" \in hook.impl => Position("BeforeSave") \in 1..(Position("write") - 1)
       /\ hook.ret \notin {"invalid", "rejected"}
  /\ (Position("Validate") > 0 /\ Position("BeforeSave") > 0) =>
       Position("Validate") < Position("BeforeSave")
  /\ (Position("Validate") > 0 /\ hook.vres # "nil") =>
       /\ hook.ret = hook.vres
       /\ Position("BeforeSave") = 0
       /\ Position("write") = 0
  /\ (Position("BeforeSave") > 0 /\ hook.bres # "nil") =>
       /\ hook.ret = hook.bres
       /\ Position("write") = 0
  /\ (hook.op # "none" /\ hook.ret # "ErrNilDocument" /\ Position("write") = 0) =>
       hook.ret \in {"invalid", "rejected"}

C28_Witness ==
  /\ hook.op = "ReplaceOne"
  /\ hook.impl = Interfaces
  /\ hook.calls = <<"Validate">>
  /\ hook.ret = "invalid"
  /\ base.op = "TouchForUpdate"

(***************************************************************************)
(* Pagination: PaginationOptions.Normalize on options whose four fields    *)
(* are any integers, zero and negative ones included.                      *)
(***************************************************************************)
MaxField == 2

FieldValues ==
  ((0 - 1)..MaxField) \cup {FallbackPerPage, FallbackPerPage + 1,
                            FallbackMaxPerPage, FallbackMaxPerPage + 1}

OptionsInputs ==
  [Page : (0 - 1)..MaxField, PerPage : FieldValues, MaxPerPage : FieldValues,
   DefaultPerPage : FieldValues]

NormalizeCapFirst(opts) ==
  LET d == IF opts.DefaultPerPage <= 0 THEN FallbackPerPage ELSE opts.DefaultPerPage
      m == IF opts.MaxPerPage <= 0 THEN FallbackMaxPerPage ELSE opts.MaxPerPage
      q == IF opts.PerPage > m THEN m ELSE opts.PerPage
      p == IF q <= 0 THEN d ELSE q
  IN [Page |-> IF opts.Page < 1 THEN 1 ELSE opts.Page,
      PerPage |-> p, MaxPerPage |-> m, DefaultPerPage |-> d]

Normalize(opts) ==
  LET d == IF opts.DefaultPerPage <= 0 THEN FallbackPerPage ELSE opts.DefaultPerPage
      m == IF opts.MaxPerPage <= 0 THEN FallbackMaxPerPage ELSE opts.MaxPerPage
      p == IF opts.PerPage <= 0 THEN d ELSE opts.PerPage
      q == IF p > m THEN m ELSE p
  IN [Page |-> IF opts.Page < 1 THEN 1 ELSE opts.Page,
      PerPage |-> q, MaxPerPage |-> m, DefaultPerPage |-> d]

CallNormalize ==
  /\ pg' = [opts |-> Normalize(pg.opts), pre |-> pg.opts, normalized |-> TRUE]
  /\ UNCHANGED <<oldvars, txn, repo, sdel, base, hook>>

PageInit ==
  /\ OldIdle
  /\ txn = TxnStart
  /\ repo = EmptyCollection
  /\ sdel = NewSoftDeletable(FALSE)
  /\ base = NewBase(0, 0)
  /\ hook = NoCall
  /\ pg \in {Given(opts) : opts \in OptionsInputs}

PageNext == CallNormalize

SpecPage == PageInit /\ [][PageNext]_vars

\* C27: after Normalize, Page >= 1 and 1 <= PerPage <= MaxPerPage; a
\* DefaultPerPage <= 0 has become 20, a MaxPerPage <= 0 has become 100, a
\* PerPage <= 0 has become DefaultPerPage and then a PerPage above MaxPerPage
\* has become MaxPerPage, and a Page below 1 has become 1.
C27_NormalizeBounds ==
  pg.normalized =>
    LET i == pg.pre
        o == pg.opts
        p == IF i.PerPage <= 0 THEN o.DefaultPerPage ELSE i.PerPage
    IN /\ o.Page >= 1
       /\ 1 <= o.PerPage /\ o.PerPage <= o.MaxPerPage
       /\ o.DefaultPerPage = (IF i.DefaultPerPage <= 0 THEN 20 ELSE i.DefaultPerPage)
       /\ o.MaxPerPage = (IF i.MaxPerPage <= 0 THEN 100 ELSE i.MaxPerPage)
       /\ o.PerPage = (IF p > o.MaxPerPage THEN o.MaxPerPage ELSE p)
       /\ o.Page = (IF i.Page < 1 THEN 1 ELSE i.Page)

C27_Witness ==
  /\ pg.normalized
  /\ pg.pre = [Page |-> 0 - 1, PerPage |-> 0, MaxPerPage |-> 0 - 1, DefaultPerPage |-> 101]
  /\ pg.opts = [Page |-> 1, PerPage |-> 100, MaxPerPage |-> 100, DefaultPerPage |-> 101]

(***************************************************************************)
(* Soft delete: a SoftDeleteRepository over a collection.  A stored        *)
(* document is its _id and its deleted_at field, <<>> when the field is    *)
(* absent.  The collection answers a query by the documents that match it. *)
(***************************************************************************)
MaxDocs == 2

DocIds == 1..MaxDocs

BD(pairs) == [t |-> "D", v |-> pairs]

\* the filters the callers pass: nil, a Filter, a bson.M and a bson.D
FiltersGiven ==
  {Nil, Eq("_id", BVal(1)), BDoc(One("_id", BVal(2))), BD(<<<<"_id", BVal(1)>>>>)}

RECURSIVE DToM(_)
DToM(pairs) ==
  IF pairs = <<>> THEN EmptyMap
  ELSE Put(DToM(SubSeq(pairs, 1, Len(pairs) - 1)),
           pairs[Len(pairs)][1], pairs[Len(pairs)][2])

notDeletedFilter == BDoc(One("deleted_at", BDoc(One("$exists", BBool(FALSE)))))

deletedFilter == BDoc(One("deleted_at", BDoc(One("$exists", BBool(TRUE)))))

IsFilter(filter) == "kind" \in DOMAIN filter

AndWith(m, cond) == BDoc(One("$and", BList(<<m, cond>>)))

combineWithNotDeleted(filter) ==
  IF filter = Nil THEN notDeletedFilter
  ELSE IF IsFilter(filter) THEN AndWith(ToMongo(filter), notDeletedFilter)
  ELSE IF filter.t = "doc" THEN AndWith(filter, notDeletedFilter)
  ELSE IF filter.t = "D" THEN AndWith(BDoc(DToM(filter.v)), notDeletedFilter)
  ELSE AndWith(filter, notDeletedFilter)

combineWithDeleted(filter) ==
  IF filter = Nil THEN deletedFilter
  ELSE IF IsFilter(filter) THEN AndWith(ToMongo(filter), deletedFilter)
  ELSE AndWith(filter, deletedFilter)

normalizeFilter(filter) ==
  IF filter = Nil THEN BDoc(EmptyMap)
  ELSE IF IsFilter(filter) THEN ToMongo(filter)
  ELSE filter

\* the answer of the collection: does document d match query q
RECURSIVE Matches(_, _)
Matches(d, q) ==
  IF q.t = "D" THEN Matches(d, BDoc(DToM(q.v)))
  ELSE \A k \in DOMAIN q.v :
         CASE k = "$and" -> \A i \in DOMAIN q.v[k].v : Matches(d, q.v[k].v[i])
           [] k = "_id" -> q.v[k] = BVal(d.id)
           [] k = "deleted_at" ->
                (q.v[k].v["$exists"] = BBool(TRUE)) <=> (d.deleted_at # <<>>)

Found(q) == {d \in repo.docs : Matches(d, q)}

\* the collections UpdateOne can leave: one matching document changed
UpdateOne(q, deletedAt) ==
  IF Found(q) = {} THEN {repo.docs}
  ELSE {(repo.docs \ {d}) \cup {[d EXCEPT !.deleted_at = deletedAt]} : d \in Found(q)}

DeleteOne(q) ==
  IF Found(q) = {} THEN {repo.docs}
  ELSE {repo.docs \ {d} : d \in Found(q)}

\* the documents FindOne can return: one that matches, or none (ErrNotFound)
OneOf(docs) == IF docs = {} THEN {{}} ELSE {{d} : d \in docs}

\* the documents of the page FindPaginated asks for
PageOf(docs, page, perPage) ==
  LET opts == Normalize([Page |-> page, PerPage |-> perPage, MaxPerPage |-> 0,
                         DefaultPerPage |-> 0])
  IN IF (opts.Page - 1) * opts.PerPage = 0 /\ opts.PerPage >= Cardinality(docs)
     THEN docs ELSE {}

Answer(op, q, docs, result) ==
  [docs |-> docs, last |-> [op |-> op, query |-> q, result |-> result]]

\* the document is saved as the caller built it: deleted_at is absent unless
\* MarkDeleted was called on it
RepoInsertOne == \E id \in DocIds, deletedAt \in {<<>>} \cup {<<t>> : t \in Times} :
  /\ repo' = Answer("InsertOne", BDoc(EmptyMap),
                    IF \E d \in repo.docs : d.id = id THEN repo.docs
                    ELSE repo.docs \cup {[id |-> id, deleted_at |-> deletedAt]}, {})
  /\ UNCHANGED <<oldvars, txn, sdel, base, pg, hook>>

RepoSoftDelete == \E filter \in FiltersGiven, now \in Times :
  /\ \E docs \in UpdateOne(combineWithNotDeleted(filter), <<now>>) :
       repo' = Answer("SoftDelete", combineWithNotDeleted(filter), docs, {})
  /\ UNCHANGED <<oldvars, txn, sdel, base, pg, hook>>

RepoRestore == \E filter \in FiltersGiven :
  /\ \E docs \in UpdateOne(combineWithDeleted(filter), <<>>) :
       repo' = Answer("Restore", combineWithDeleted(filter), docs, {})
  /\ UNCHANGED <<oldvars, txn, sdel, base, pg, hook>>

RepoHardDelete == \E filter \in FiltersGiven :
  /\ \E docs \in DeleteOne(normalizeFilter(filter)) :
       repo' = Answer("HardDelete", normalizeFilter(filter), docs, {})
  /\ UNCHANGED <<oldvars, txn, sdel, base, pg, hook>>

RepoFind == \E filter \in FiltersGiven :
  /\ repo' = Answer("Find", normalizeFilter(combineWithNotDeleted(filter)), repo.docs,
                    Found(normalizeFilter(combineWithNotDeleted(filter))))
  /\ UNCHANGED <<oldvars, txn, sdel, base, pg, hook>>

RepoFindOne == \E filter \in FiltersGiven :
  /\ \E result \in OneOf(Found(normalizeFilter(combineWithNotDeleted(filter)))) :
       repo' = Answer("FindOne", normalizeFilter(combineWithNotDeleted(filter)),
                      repo.docs, result)
  /\ UNCHANGED <<oldvars, txn, sdel, base, pg, hook>>

\* FindPaginated is the method of the embedded MongoRepository
RepoFindPaginated == \E filter \in FiltersGiven, page \in {0, 1}, perPage \in {0, MaxDocs} :
  /\ repo' = Answer("FindPaginated", normalizeFilter(filter), repo.docs,
                    PageOf(Found(normalizeFilter(filter)), page, perPage))
  /\ UNCHANGED <<oldvars, txn, sdel, base, pg, hook>>

RepoInit == OldIdle /\ ExtIdle

RepoNext ==
  \/ RepoInsertOne
  \/ RepoSoftDelete
  \/ RepoRestore
  \/ RepoHardDelete
  \/ RepoFind
  \/ RepoFindOne
  \/ RepoFindPaginated

SpecRepo == RepoInit /\ [][RepoNext]_vars

\* the query has the deleted_at-does-not-exist condition added
HasNotDeleted(q) ==
  \/ q = notDeletedFilter
  \/ /\ q.t = "doc"
     /\ DOMAIN q.v = {"$and"}
     /\ q.v["$and"].v[Len(q.v["$and"].v)] = notDeletedFilter

\* C24: Find, FindOne and FindPaginated of a SoftDeleteRepository query the
\* store with the deleted_at-does-not-exist condition added and return no
\* soft-deleted document.
C24_FindsExcludeDeleted ==
  repo.last.op \in {"Find", "FindOne", "FindPaginated"} =>
    /\ HasNotDeleted(repo.last.query)
    /\ \A d \in repo.last.result : d.deleted_at = <<>>

(***************************************************************************)
(* Nested Combine: the three ways of combining three leaves, each compiled *)
(* from the same maps of the caller.                                       *)
(***************************************************************************)
NestedLeaves ==
  {Set("a", BVal(1)), Set("a", BVal(2)), Inc("b", BVal(1)), Rename("a", "x")}
    \cup {SetFields(ref) : ref \in MapRefs}

CallNested == \E a \in NestedLeaves, b \in NestedLeaves, c \in NestedLeaves :
  LET flat == Combine(<<a, b, c>>)
      left == Combine(<<Combine(<<a, b>>), c>>)
      right == Combine(<<a, Combine(<<b, c>>)>>)
  IN /\ UNodeCount(left) <= MaxUNodes
     /\ upd' = flat
     /\ ucall' = [op |-> "Nested", args |-> <<a, b, c>>, res |-> flat, pre |-> maps,
                  out |-> Observed(ToBsonUpdate(flat, maps)),
                  panic |-> ToBsonUpdate(flat, maps).panic,
                  left |-> Observed(ToBsonUpdate(left, maps)),
                  right |-> Observed(ToBsonUpdate(right, maps))]
     /\ UNCHANGED <<xvars, pvars, maps, fvars, cvars>>

NestedNext == CallNested

SpecNested == UpdateInit /\ [][NestedNext]_vars

\* C29: Combine(Combine(a, b), c) and Combine(a, Combine(b, c)) compile to what
\* Combine(a, b, c) compiles to, for all leaves a, b, c.
C29_NestedEqualsFlat ==
  ucall.op = "Nested" =>
    /\ ucall.left = ucall.out
    /\ ucall.right = ucall.out

====
